---- MODULE Spec2Model ----
(***************************************************************************)
(* Model of the EDIFACT INVOIC generator (amazon_csv_to_edi.py and         *)
(* workday_excel_to_edi.py), of the EDIFACT parser (edi_parser.py) and of  *)
(* create_and_populate_set of the Alma set clients (create_item_set.py,    *)
(* create_title_set.py).                                                   *)
(*                                                                         *)
(* A Python str is a sequence of one-character strings, so that f-string   *)
(* formatting is concatenation and str.split / re.split really cut the     *)
(* text at the separator characters.  None is the value None below; a      *)
(* dict is a function whose DOMAIN is its key set (for the input dicts) or *)
(* a sequence of [k, v] pairs in insertion order (for OrderedDict).        *)
(* Amounts (Python floats holding 2-decimal values) are integers counted   *)
(* in hundredths; "{x:.2f}" is Fmt2.                                       *)
(***************************************************************************)
EXTENDS Integers, Sequences, FiniteSets, TLC

VARIABLES
    variant,    \* "csv" (amazon_csv_to_edi.py) or "workday" (workday_excel_to_edi.py)
    invoices,   \* the list returned by parse_amazon_csv / parse_workday_excel
    pc,         \* position of the running script
    idx,        \* 1-based index of the next invoice of the "for invoice in invoices" loop
    edi_file,   \* content of the EDI file (written so far, or handed to parse_edi)
    interchange_ref,  \* config.interchange_ref (None until given or generated)
    parsed,     \* outcome of parse_edi: [err, data]
    title,      \* a line item's title (title-splitting runs)
    chunks,     \* the list returned by split_title_for_imd
    message,    \* the list returned by a direct call of generate_invoice_segments
    csv_rows,   \* the rows csv.DictReader gives parse_amazon_csv
    set_call    \* the running call of create_and_populate_set (Alma set clients)

vars == <<variant, invoices, pc, idx, edi_file, interchange_ref, parsed, title, chunks,
         message, csv_rows, set_call>>

(***************************************************************************)
(* Bounds of the model.                                                    *)
(***************************************************************************)
MaxWords == 3       \* words per title
MaxItems == 2       \* line items per invoice
MaxInvoices == 2    \* invoices per batch
MaxSegs == 4        \* segments of a hand-made stream given to parse_edi
MaxRows == 3        \* rows of a CSV file given to parse_amazon_csv
MaxSetIds == 2      \* set IDs the Alma server hands out

(***************************************************************************)
(* Python values and string primitives.                                    *)
(***************************************************************************)
None == <<"None">>          \* Python's None: no str equals it
Missing == <<"Missing">>    \* the key is not in the dict

Take(s, n) == SubSeq(s, 1, IF n < Len(s) THEN n ELSE Len(s))
Drop(s, n) == SubSeq(s, n + 1, Len(s))

\* str.upper() on the letters the inputs use
str_upper(s) ==
    [i \in 1..Len(s) |->
        CASE s[i] = "a" -> "A" [] s[i] = "b" -> "B" [] s[i] = "c" -> "C"
          [] s[i] = "y" -> "Y" [] OTHER -> s[i]]

\* s.split(sep) / re.split: the pieces of s between the characters of seps,
\* empty pieces included; a string without separator gives one piece.
Split(s, seps) ==
    LET P == {i \in 1..Len(s) : s[i] \in seps}
        n == Cardinality(P)
        pos(k) == IF k = 0 THEN 0
                  ELSE IF k = n + 1 THEN Len(s) + 1
                  ELSE CHOOSE i \in P : Cardinality({j \in P : j < i}) = k - 1
    IN  [k \in 1..(n + 1) |-> SubSeq(s, pos(k - 1) + 1, pos(k) - 1)]

NonEmpty(w) == w # <<>>

\* s.split(): the maximal runs of non-whitespace characters
Words(s) == SelectSeq(Split(s, {" "}), NonEmpty)

\* s.strip()
Strip(s) ==
    LET N == {i \in 1..Len(s) : s[i] # " "}
    IN  IF N = {} THEN <<>>
        ELSE SubSeq(s, CHOOSE i \in N : \A j \in N : i <= j,
                       CHOOSE i \in N : \A j \in N : j <= i)

\* sep.join(list)
RECURSIVE Join(_, _)
Join(list, sep) ==
    IF list = <<>> THEN <<>>
    ELSE IF Len(list) = 1 THEN list[1]
    ELSE list[1] \o sep \o Join(Tail(list), sep)

\* "".join(list): what successive write() calls leave in a file
RECURSIVE Concat(_)
Concat(list) == IF list = <<>> THEN <<>> ELSE Head(list) \o Concat(Tail(list))

DigitChars == <<"0", "1", "2", "3", "4", "5", "6", "7", "8", "9">>

RECURSIVE NatStr(_)
NatStr(n) == IF n < 10 THEN <<DigitChars[n + 1]>>
             ELSE NatStr(n \div 10) \o <<DigitChars[(n % 10) + 1]>>

\* f"{n}" for an int
IntStr(n) == IF n < 0 THEN <<"-">> \o NatStr(0 - n) ELSE NatStr(n)

\* f"{x:.2f}" for an amount of c hundredths
Fmt2(c) ==
    LET a == IF c < 0 THEN 0 - c ELSE c
    IN  (IF c < 0 THEN <<"-">> ELSE <<>>)
        \o NatStr(a \div 100) \o <<".">>
        \o <<DigitChars[((a % 100) \div 10) + 1], DigitChars[(a % 10) + 1]>>

DigitVal(ch) == CHOOSE d \in 0..9 : DigitChars[d + 1] = ch

RECURSIVE NatVal(_)
NatVal(ds) == IF ds = <<>> THEN 0
              ELSE 10 * NatVal(SubSeq(ds, 1, Len(ds) - 1)) + DigitVal(ds[Len(ds)])

\* int(s) for a str: surrounding whitespace and one sign are accepted, then
\* digits only; anything else raises ValueError (ok = FALSE).
ParseInt(s) ==
    LET t == Strip(s)
        signed == t # <<>> /\ t[1] \in {"-", "+"}
        ds == IF signed THEN Tail(t) ELSE t
        good == ds # <<>> /\ \A i \in 1..Len(ds) : ds[i] \in {DigitChars[d] : d \in 1..10}
    IN  IF ~good THEN [ok |-> FALSE, v |-> 0]
        ELSE [ok |-> TRUE,
              v |-> IF signed /\ t[1] = "-" THEN 0 - NatVal(ds) ELSE NatVal(ds)]

\* dict.get(key, default)
Get(d, key, default) == IF key \in DOMAIN d THEN d[key] ELSE default

(***************************************************************************)
(* EDIFACTInvoiceGenerator.split_title_for_imd (the same code in both      *)
(* generators).                                                            *)
(***************************************************************************)
max_length == 35

\* word[:max_length] and word[max_length:] of the forced split
ForceSplitHead(word) == Take(word, max_length)
\* a faulty ForceSplitRest: the remainder starts one character late
ForceSplitRest_late(word) == Drop(word, max_length + 1)
ForceSplitRest(word) == Drop(word, max_length)

\* the test of the loop's if: len(current_segment + " " + word) <= max_length
FitsCurrent(current_segment, word) ==
    Len(current_segment \o <<" ">> \o word) <= max_length

\* the "for word in words" loop and the final append
RECURSIVE SplitLoop(_, _, _)
SplitLoop(words, segments, current_segment) ==
    IF words = <<>>
    THEN IF current_segment # <<>> THEN Append(segments, current_segment)
         ELSE segments
    ELSE LET word == Head(words) IN
         IF FitsCurrent(current_segment, word)
         THEN SplitLoop(Tail(words), segments,
                        IF current_segment # <<>>
                        THEN current_segment \o <<" ">> \o word
                        ELSE word)
         ELSE IF current_segment # <<>>
         THEN SplitLoop(Tail(words), Append(segments, current_segment), word)
         ELSE SplitLoop(Tail(words), Append(segments, ForceSplitHead(word)),
                        ForceSplitRest(word))

split_title_for_imd(t) ==
    IF Len(t) <= max_length THEN <<t>>
    ELSE SplitLoop(Words(t), <<>>, <<>>)

(***************************************************************************)
(* Titles given to the splitter: up to MaxWords words of the lengths in    *)
(* WordLens, joined by one space, optionally with irregular whitespace     *)
(* (the CSV reader hands the Title column over as it is).                  *)
(***************************************************************************)
WordLens == {1, 17, 34, 35, 36, 50, 71}
Pads == {"none", "lead", "trail", "double"}
Letters == <<"a", "b", "c">>

\* the k-th word of a title, n characters long; its letters cycle so that a
\* lost, repeated or swapped piece changes the text
WordOf(k, n) == [j \in 1..n |-> Letters[((j + k) % 3) + 1]]

TitleOf(lens, pad) ==
    LET ws == [k \in 1..Len(lens) |-> WordOf(k, lens[k])]
        body == IF pad = "double" /\ Len(ws) > 1
                THEN ws[1] \o <<" "," ">> \o Join(Tail(ws), <<" ">>)
                ELSE Join(ws, <<" ">>)
    IN  CASE pad = "lead" -> <<" ">> \o body
          [] pad = "trail" -> body \o <<" ">>
          [] OTHER -> body

WordLists == UNION {[1..n -> WordLens] : n \in 0..MaxWords}
Blank36 == [j \in 1..36 |-> " "]
Titles == {TitleOf(l, p) : l \in WordLists, p \in Pads} \cup {Blank36}

(***************************************************************************)
(* Line-item and invoice dicts.  A quantity is a str (the CSV reader) or   *)
(* an int (the workbook reader); every other field has one type.           *)
(***************************************************************************)
StrV(s) == [t |-> "str", v |-> s]
IntV(n) == [t |-> "int", v |-> n]

\* truth value of a quantity in "x or default"
Truthy(q) == IF q.t = "str" THEN q.v # <<>> ELSE q.v # 0

\* int(q): [ok, v], ok = FALSE when int() raises ValueError
PyInt(q) == IF q.t = "int" THEN [ok |-> TRUE, v |-> q.v] ELSE ParseInt(q.v)

\* f"{q}"
PyStr(q) == IF q.t = "int" THEN IntStr(q.v) ELSE q.v

\* item.get('quantity', '1') or '1'
EmittedQuantity(item) ==
    LET q == Get(item, "quantity", StrV(<<"1">>))
    IN  IF Truthy(q) THEN q ELSE StrV(<<"1">>)

\* a faulty CountedQuantity: every line counts as one piece
CountedQuantity_lines(item) == [ok |-> TRUE, v |-> 1]

\* int(item.get('quantity', 1) or 1)
CountedQuantity(item) ==
    LET q == Get(item, "quantity", IntV(1))
    IN  PyInt(IF Truthy(q) THEN q ELSE IntV(1))

\* sum(item.get(key, 0) for item in line_items)
RECURSIVE SumField(_, _)
SumField(line_items, key) ==
    IF line_items = <<>> THEN 0
    ELSE Get(Head(line_items), key, 0) + SumField(Tail(line_items), key)

\* sum(int(item.get('quantity', 1) or 1) for item in line_items)
RECURSIVE TotalQty(_)
TotalQty(line_items) ==
    IF line_items = <<>> THEN 0
    ELSE CountedQuantity(Head(line_items)).v + TotalQty(Tail(line_items))

\* sum(item.get('unit_price', 0) * int(item.get('quantity', 1) or 1) ...)
RECURSIVE GoodsTotal(_)
GoodsTotal(line_items) ==
    IF line_items = <<>> THEN 0
    ELSE Get(Head(line_items), "unit_price", 0) * CountedQuantity(Head(line_items)).v
         + GoodsTotal(Tail(line_items))

\* the keys in which the two generators differ
ItemIdKey(v) == IF v = "csv" THEN "asin" ELSE "supplier_item_id"
SliRefKey(v) == IF v = "csv" THEN "sli_ref" ELSE "po_line_ref"

\* EDIFACTConfig defaults
vendor_account == <<"a","m","a","z","o","n">>
currency == <<"U","S","D">>

(***************************************************************************)
(* generate_line_item_segments: [ok, segs]; ok = FALSE when int(quantity)  *)
(* raises.                                                                 *)
(***************************************************************************)
\* a faulty LineTotalText: the quantity is left out of the line total
LineTotalText_unit(unit_price, n) == Fmt2(unit_price)

\* f"{unit_price * int(quantity):.2f}"
LineTotalText(unit_price, n) == Fmt2(unit_price * n)

\* a faulty LinSegment: the lines are numbered from 0
LinSegment_fromzero(line_num, item_id) ==
    <<"L","I","N","+">> \o IntStr(line_num - 1) \o <<"+","+">> \o item_id \o <<":","E","N","'">>

\* f"LIN+{line_num}++{asin}:EN'"
LinSegment(line_num, item_id) ==
    <<"L","I","N","+">> \o IntStr(line_num) \o <<"+","+">> \o item_id \o <<":","E","N","'">>

TitleSegments(item) ==
    LET title_segments == split_title_for_imd(str_upper(Get(item, "title", <<>>)))
    IN  [i \in 1..Len(title_segments) |->
            <<"I","M","D","+","L","+","0","5","0","+",":",":",":">> \o title_segments[i] \o <<"'">>]

\* a faulty TaxSegments: MOA+124 does not depend on the tax rate
TaxSegments_amount(item) ==
    (IF Get(item, "tax_rate", <<>>) # <<>> /\ Get(item, "tax_rate", <<>>) # <<"0">>
     THEN <<<<"T","A","X","+","7","+","V","A","T","+","+","+",":",":",":">> \o Get(item, "tax_rate", <<>>) \o <<"'">>>>
     ELSE <<>>)
    \o (IF Get(item, "tax_amount", 0) > 0
        THEN <<<<"M","O","A","+","1","2","4",":">> \o Fmt2(Get(item, "tax_amount", 0)) \o <<"'">>>>
        ELSE <<>>)

TaxSegments(item) ==
    LET tax_rate == Get(item, "tax_rate", <<>>)
        tax_amount == Get(item, "tax_amount", 0)
    IN  IF tax_rate # <<>> /\ tax_rate # <<"0">>
        THEN <<<<"T","A","X","+","7","+","V","A","T","+","+","+",":",":",":">> \o tax_rate \o <<"'">>>>
             \o (IF tax_amount > 0
                 THEN <<<<"M","O","A","+","1","2","4",":">> \o Fmt2(tax_amount) \o <<"'">>>>
                 ELSE <<>>)
        ELSE <<>>

generate_line_item_segments(v, item, line_num) ==
    LET item_id == Get(item, ItemIdKey(v), <<>>)
        author == str_upper(Get(item, "author", <<>>))
        quantity == EmittedQuantity(item)
        unit_price == Get(item, "unit_price", 0)
        n == PyInt(quantity)
        list_price == Get(item, "list_price", unit_price)
        pol == Get(item, "pol", <<>>)
        sli_ref == Get(item, SliRefKey(v), <<"0">>)
    IN  IF ~n.ok THEN [ok |-> FALSE, segs |-> <<>>]
        ELSE [ok |-> TRUE,
              segs |->
                <<LinSegment(line_num, item_id)>>
                \o (IF author # <<>>
                    THEN <<<<"I","M","D","+","L","+","0","1","0","+",":",":",":">> \o author \o <<"'">>>>
                    ELSE <<>>)
                \o TitleSegments(item)
                \o <<<<"Q","T","Y","+","4","7",":">> \o PyStr(quantity) \o <<"'">>,
                     <<"M","O","A","+","2","0","3",":">> \o LineTotalText(unit_price, n.v) \o <<"'">>,
                     <<"P","R","I","+","A","A","B",":">> \o Fmt2(list_price) \o <<"'">>,
                     <<"P","R","I","+","A","A","A",":">> \o Fmt2(unit_price) \o <<"'">>>>
                \o TaxSegments(item)
                \o (IF pol # <<>> THEN <<<<"R","F","F","+","L","I",":">> \o pol \o <<"'">>>> ELSE <<>>)
                \o <<<<"R","F","F","+","S","L","I",":">> \o sli_ref \o <<"'">>>>]

\* for i, item in enumerate(line_items, 1): segments.extend(...)
RECURSIVE LineItemsSegments(_, _, _)
LineItemsSegments(v, line_items, i) ==
    IF i > Len(line_items) THEN [ok |-> TRUE, segs |-> <<>>]
    ELSE LET one == generate_line_item_segments(v, line_items[i], i)
             rest == LineItemsSegments(v, line_items, i + 1)
         IN  IF one.ok /\ rest.ok
             THEN [ok |-> TRUE, segs |-> one.segs \o rest.segs]
             ELSE [ok |-> FALSE, segs |-> <<>>]

(***************************************************************************)
(* generate_invoice_segments: [ok, segs].  today is                        *)
(* datetime.now().strftime("%Y%m%d"), the default of a missing             *)
(* invoice_date.                                                           *)
(***************************************************************************)
\* a faulty DueDateSegments: a due date equal to the invoice date is emitted
DueDateSegments_always(due_date, invoice_date) ==
    IF due_date # <<>>
    THEN <<<<"D","T","M","+","1","3",":">> \o due_date \o <<":","1","0","2","'">>>>
    ELSE <<>>

\* if due_date and due_date != invoice_date: segments.append(DTM+13)
DueDateSegments(due_date, invoice_date) ==
    IF due_date # <<>> /\ due_date # invoice_date
    THEN <<<<"D","T","M","+","1","3",":">> \o due_date \o <<":","1","0","2","'">>>>
    ELSE <<>>

HeaderSegments(invoice_data, today) ==
    LET msg_ref == Get(invoice_data, "invoice_number", <<"1">>)
        invoice_num == Get(invoice_data, "invoice_number", <<"4","9","1","1","5","0">>)
        invoice_date == Get(invoice_data, "invoice_date", today)
        due_date == Get(invoice_data, "due_date", <<>>)
        api_ref == Get(invoice_data, "api_ref", <<"7","0","1","5","-","1","0">>)
    IN  <<<<"U","N","H","+">> \o msg_ref \o <<"+","I","N","V","O","I","C",":","D",":","9","6","A",":","U","N",":","E","A","N","0","0","8","'">>,
          <<"B","G","M","+","3","8","0","+">> \o invoice_num \o <<"'">>,
          <<"D","T","M","+","1","3","7",":">> \o invoice_date \o <<":","1","0","2","'">>>>
        \o DueDateSegments(due_date, invoice_date)
        \o <<<<"R","F","F","+","A","P","I",":">> \o api_ref \o <<"'">>,
             <<"R","F","F","+","V","A",":">> \o vendor_account \o <<"'">>,
             <<"C","U","X","+","2",":">> \o currency \o <<":","4","'">>>>

\* a faulty FreightCharge: the charge is emitted also when it is 0
FreightCharge_always(line_items) ==
    <<<<"A","L","C","+","C","+","+","+","+","D","L",":",":","2","8",":","F","r","e","i","g","h","t"," ","C","h","a","r","g","e","s","'">>,
      <<"M","O","A","+","8",":">> \o Fmt2(SumField(line_items, "shipping")) \o <<"'">>>>

FreightCharge(line_items) ==
    LET shipping_total == SumField(line_items, "shipping")
    IN  IF shipping_total > 0
        THEN <<<<"A","L","C","+","C","+","+","+","+","D","L",":",":","2","8",":","F","r","e","i","g","h","t"," ","C","h","a","r","g","e","s","'">>,
               <<"M","O","A","+","8",":">> \o Fmt2(shipping_total) \o <<"'">>>>
        ELSE <<>>

\* a faulty SalesTaxCharge: the pair is emitted also when the tax is 0
SalesTaxCharge_always(invoice_data) ==
    <<<<"A","L","C","+","C","+","+","+","+","T","X",":",":","2","8",":","S","a","l","e","s"," ","T","a","x","'">>,
      <<"M","O","A","+","8",":">> \o Fmt2(Get(invoice_data, "total_tax", 0)) \o <<"'">>>>

\* workday_excel_to_edi.py only
SalesTaxCharge(invoice_data) ==
    LET total_tax == Get(invoice_data, "total_tax", 0)
    IN  IF total_tax > 0
        THEN <<<<"A","L","C","+","C","+","+","+","+","T","X",":",":","2","8",":","S","a","l","e","s"," ","T","a","x","'">>,
               <<"M","O","A","+","8",":">> \o Fmt2(total_tax) \o <<"'">>>>
        ELSE <<>>

ControlTotals(line_items) ==
    <<<<"C","N","T","+","1",":">> \o IntStr(TotalQty(line_items)) \o <<"'">>,
      <<"C","N","T","+","2",":">> \o IntStr(Len(line_items)) \o <<"'">>>>

\* a faulty GrossTotal: the shipping amounts are left out
GrossTotal_goods(line_items) == GoodsTotal(line_items)

GrossTotal(line_items) == GoodsTotal(line_items) + SumField(line_items, "shipping")

\* amazon_csv_to_edi.py
TotalsCsv(line_items) ==
    LET gross_total == GrossTotal(line_items)
        discounts_total == SumField(line_items, "discounts")
        total_tax == SumField(line_items, "tax_amount")
        net_total == gross_total + discounts_total + total_tax
    IN  <<<<"M","O","A","+","9",":">> \o Fmt2(gross_total) \o <<"'">>,
          <<"M","O","A","+","7","9",":">> \o Fmt2(net_total) \o <<"'">>>>
        \o (IF total_tax > 0
            THEN <<<<"M","O","A","+","1","7","6",":">> \o Fmt2(total_tax) \o <<"'">>>>
            ELSE <<>>)

\* a faulty TotalsWorkday: the total_amount of the record is not looked at
TotalsWorkday_sum(invoice_data, line_items) ==
    <<<<"M","O","A","+","9",":">> \o Fmt2(GrossTotal(line_items)) \o <<"'">>,
      <<"M","O","A","+","7","9",":">> \o Fmt2(GrossTotal(line_items)
                          + Get(invoice_data, "total_tax", 0)) \o <<"'">>>>

\* workday_excel_to_edi.py
TotalsWorkday(invoice_data, line_items) ==
    LET gross_total == GrossTotal(line_items)
        total_tax == Get(invoice_data, "total_tax", 0)
        net_total == Get(invoice_data, "total_amount", gross_total + total_tax)
    IN  <<<<"M","O","A","+","9",":">> \o Fmt2(gross_total) \o <<"'">>,
          <<"M","O","A","+","7","9",":">> \o Fmt2(net_total) \o <<"'">>>>

\* a faulty SegmentCount: the UNT segment itself is not counted
SegmentCount_body(segments) == Len(segments)

\* segment_count = len(segments) + 1
SegmentCount(segments) == Len(segments) + 1

generate_invoice_segments(v, invoice_data, today) ==
    LET line_items == Get(invoice_data, "line_items", <<>>)
        lines == LineItemsSegments(v, line_items, 1)
        msg_ref == Get(invoice_data, "invoice_number", <<"1">>)
    IN  IF ~lines.ok THEN [ok |-> FALSE, segs |-> <<>>]
        ELSE LET segments ==
                     HeaderSegments(invoice_data, today)
                     \o FreightCharge(line_items)
                     \o (IF v = "workday" THEN SalesTaxCharge(invoice_data) ELSE <<>>)
                     \o lines.segs
                     \o <<<<"U","N","S","+","S","'">>>>
                     \o ControlTotals(line_items)
                     \o (IF v = "csv" THEN TotalsCsv(line_items)
                         ELSE TotalsWorkday(invoice_data, line_items))
                 segment_count == SegmentCount(segments)
             IN  [ok |-> TRUE,
                  segs |-> Append(segments,
                                  <<"U","N","T","+">> \o IntStr(segment_count) \o <<"+">>
                                  \o msg_ref \o <<"'">>)]

\* a clock reading: what the strftime calls give at that moment
Clock ==
    {[tick |-> 1, ymd |-> <<"2","0","2","5","0","3","0","1">>, date_str |-> <<"2","5","0","3","0","1">>, time_str |-> <<"0","9","3","0">>,
      stamp |-> <<"0","3","0","1","0","9","3","0","0","0","1","2","3">>],
     [tick |-> 2, ymd |-> <<"2","0","2","5","0","3","0","2">>, date_str |-> <<"2","5","0","3","0","2">>, time_str |-> <<"1","0","1","5">>,
      stamp |-> <<"0","3","0","2","1","0","1","5","0","0","4","5","6">>]}

\* EDIFACTInvoiceGenerator.__init__: the reference is generated when none is given
InitInterchangeRef(given, now) == IF given = None THEN now.stamp ELSE given

generate_una_unb_headers(ref, now) ==
    <<"U","N","A",":","+",".","?"," ","'">>
    \o <<"U","N","B","+","U","N","O","C",":","2","+","1","6","9","4","5","1","0","1","0","1",":","3","1","B","+","3","3","3","3","1","5","9",":","3","1","B","+">>
    \o now.date_str \o <<":">> \o now.time_str \o <<"+">> \o ref \o <<"'">>

\* a faulty generate_unz_trailer: the count is one too high
generate_unz_trailer_more(ref, message_count) ==
    <<"U","N","Z","+">> \o IntStr(message_count + 1) \o <<"+">> \o ref \o <<"'">>

generate_unz_trailer(ref, message_count) ==
    <<"U","N","Z","+">> \o IntStr(message_count) \o <<"+">> \o ref \o <<"'">>

(***************************************************************************)
(* OrderedDict: a sequence of [k, v] pairs in insertion order.  Assigning  *)
(* to a key that is there replaces its value in place.                     *)
(***************************************************************************)
HasKey(d, key) == \E i \in 1..Len(d) : d[i].k = key
IndexOf(d, key) == CHOOSE i \in 1..Len(d) : d[i].k = key
Lookup(d, key) == d[IndexOf(d, key)].v
Put(d, key, val) ==
    IF HasKey(d, key) THEN [d EXCEPT ![IndexOf(d, key)].v = val]
    ELSE Append(d, [k |-> key, v |-> val])
Keys(d) == [i \in 1..Len(d) |-> d[i].k]

(***************************************************************************)
(* parse_edi.  The parse state is [err, data, current_message_ref,         *)
(* current_line_number]; err names the exception that ended the parse.     *)
(* A message's 'invoice_date' key is Missing until a DTM sets it.          *)
(***************************************************************************)
ParseStart ==
    [err |-> "none", data |-> <<>>,
     current_message_ref |-> None, current_line_number |-> None]

NewMessage ==
    [invoice_number |-> None, invoice_date |-> Missing,
     lines |-> <<>>, totals |-> <<>>]

NewLine(item_number) ==
    [item_number |-> item_number, description |-> <<>>,
     quantity |-> None, amount |-> None]

\* elements[i] with Python's 0-based index
El(elements, i) == elements[i + 1]

\* f'line_{current_line_number}'
LineKey(current_line_number) == <<"l","i","n","e","_">> \o current_line_number

Raise(st, e) == [st EXCEPT !.err = e]

\* parsed_data[current_message_ref][field] = val
SetMessageField(st, field, val) ==
    IF ~HasKey(st.data, st.current_message_ref) THEN Raise(st, "KeyError")
    ELSE [st EXCEPT !.data = Put(st.data, st.current_message_ref,
              [Lookup(st.data, st.current_message_ref) EXCEPT ![field] = val])]

\* parsed_data[current_message_ref]['totals']['invoice_total'] = val
SetInvoiceTotal(st, val) ==
    IF ~HasKey(st.data, st.current_message_ref) THEN Raise(st, "KeyError")
    ELSE LET m == Lookup(st.data, st.current_message_ref)
         IN  SetMessageField(st, "totals", Put(m.totals, <<"i","n","v","o","i","c","e","_","t","o","t","a","l">>, val))

\* parsed_data[current_message_ref]['lines'][f'line_{...}'] = OrderedDict(...)
OpenLine(st, item_number) ==
    IF ~HasKey(st.data, st.current_message_ref) THEN Raise(st, "KeyError")
    ELSE LET m == Lookup(st.data, st.current_message_ref)
         IN  SetMessageField(st, "lines",
                 Put(m.lines, LineKey(st.current_line_number), NewLine(item_number)))

\* parsed_data[current_message_ref]['lines'][f'line_{...}'][field] = val, or
\* .append(val) for the description
SetLineField(st, field, val) ==
    IF ~HasKey(st.data, st.current_message_ref) THEN Raise(st, "KeyError")
    ELSE LET m == Lookup(st.data, st.current_message_ref)
             key == LineKey(st.current_line_number)
         IN  IF ~HasKey(m.lines, key) THEN Raise(st, "KeyError")
             ELSE LET line == Lookup(m.lines, key)
                      new == IF field = "description"
                             THEN [line EXCEPT !.description = Append(@, val)]
                             ELSE [line EXCEPT ![field] = val]
                  IN  SetMessageField(st, "lines", Put(m.lines, key, new))

\* a faulty OnUNH: an entry that is there is kept
OnUNH_keep(st, elements) ==
    IF Len(elements) < 2 THEN Raise(st, "IndexError")
    ELSE [st EXCEPT !.current_message_ref = El(elements, 1),
                    !.data = IF HasKey(st.data, El(elements, 1)) THEN st.data
                             ELSE Put(st.data, El(elements, 1), NewMessage)]

OnUNH(st, elements) ==
    IF Len(elements) < 2 THEN Raise(st, "IndexError")
    ELSE [st EXCEPT !.current_message_ref = El(elements, 1),
                    !.data = Put(st.data, El(elements, 1), NewMessage)]

OnDTM(st, elements) ==
    IF st.current_message_ref # None /\ Len(elements) > 2
    THEN SetMessageField(st, "invoice_date", El(elements, 2))
    ELSE st

OnBGM(st, elements) ==
    IF st.current_message_ref # None /\ Len(elements) > 2
    THEN SetMessageField(st, "invoice_number", El(elements, 2))
    ELSE st

\* a faulty OnLIN: the item number is read one element too early
OnLIN_early(st, elements) ==
    IF Len(elements) < 2 THEN Raise(st, "IndexError")
    ELSE OpenLine([st EXCEPT !.current_line_number = El(elements, 1)],
                  IF Len(elements) > 2 THEN El(elements, 2) ELSE None)

\* a faulty OnLIN: elements[3] is read without looking at the length
OnLIN_strict(st, elements) ==
    IF Len(elements) < 4 THEN Raise(st, "IndexError")
    ELSE OpenLine([st EXCEPT !.current_line_number = El(elements, 1)],
                  El(elements, 3))

OnLIN(st, elements) ==
    IF Len(elements) < 2 THEN Raise(st, "IndexError")
    ELSE OpenLine([st EXCEPT !.current_line_number = El(elements, 1)],
                  IF Len(elements) > 3 THEN El(elements, 3) ELSE None)

OnIMD(st, elements) ==
    IF st.current_line_number # None
    THEN LET description == IF Len(elements) > 4
                            THEN Join(Drop(elements, 4), <<" ">>)
                            ELSE <<>>
         IN  SetLineField(st, "description", Strip(description))
    ELSE st

OnQTY(st, elements) ==
    IF st.current_line_number # None
    THEN SetLineField(st, "quantity",
                      IF Len(elements) > 2 THEN El(elements, 2) ELSE None)
    ELSE st

\* a faulty OnMOA: every qualifier other than 203 is the invoice total
OnMOA_any(st, elements) ==
    IF Len(elements) > 2
    THEN IF El(elements, 1) = <<"2","0","3">> /\ st.current_line_number # None
         THEN SetLineField(st, "amount", El(elements, 2))
         ELSE SetInvoiceTotal(st, El(elements, 2))
    ELSE st

OnMOA(st, elements) ==
    IF Len(elements) > 2
    THEN IF El(elements, 1) = <<"2","0","3">> /\ st.current_line_number # None
         THEN SetLineField(st, "amount", El(elements, 2))
         ELSE IF El(elements, 1) = <<"9">>
         THEN SetInvoiceTotal(st, El(elements, 2))
         ELSE st
    ELSE st

\* the body of "for segment in segments"
ParseSegment(st, segment) ==
    LET elements == Split(segment, {"+", ":"})
        segment_name == El(elements, 0)
    IN  CASE segment_name = <<"U","N","H">> -> OnUNH(st, elements)
          [] segment_name = <<"D","T","M">> -> OnDTM(st, elements)
          [] segment_name = <<"B","G","M">> -> OnBGM(st, elements)
          [] segment_name = <<"L","I","N">> -> OnLIN(st, elements)
          [] segment_name = <<"I","M","D">> -> OnIMD(st, elements)
          [] segment_name = <<"Q","T","Y">> -> OnQTY(st, elements)
          [] segment_name = <<"M","O","A">> -> OnMOA(st, elements)
          [] OTHER -> st

\* the loop: an exception ends it
RECURSIVE ParseLoop(_, _, _)
ParseLoop(st, segments, i) ==
    IF i > Len(segments) \/ st.err # "none" THEN st
    ELSE ParseLoop(ParseSegment(st, segments[i]), segments, i + 1)

\* line['description'] = ' '.join(line['description']) for every line
JoinDescriptions(data) ==
    [i \in 1..Len(data) |->
        [data[i] EXCEPT !.v.lines =
            [j \in 1..Len(@) |->
                [@[j] EXCEPT !.v.description = Join(@, <<" ">>)]]]]

\* [err, data]: the mapping parse_edi returns, or the exception it raises
parse_edi(edi_content) ==
    LET st == ParseLoop(ParseStart, Split(edi_content, {"'"}), 1)
    IN  IF st.err # "none" THEN [err |-> st.err, data |-> <<>>]
        ELSE [err |-> "none", data |-> JoinDescriptions(st.data)]

(***************************************************************************)
(* Inputs of a conversion run: the invoice dicts the two readers build.    *)
(* The values hold none of the characters ' + : (section 4.1 of the        *)
(* specification leaves that to the caller).                               *)
(***************************************************************************)
LongTitle == <<"a","b"," ","c","a","b"," ","c","a","b","c","a"," ","b","c","a","b","c"," ","a","b","c","a","b","c","a","b"," ","c","a","b","c"," ","a","b","c","a","b","c","a","b","c","a","b">>

\* parse_amazon_csv sets every key of a line item; the quantity is a
\* non-empty str.
CsvItem(id, ttl, auth, qty, price, ship, disc, rate, tax, pol) ==
    [asin |-> id, title |-> ttl, author |-> auth, quantity |-> StrV(qty),
     unit_price |-> price, list_price |-> price, shipping |-> ship,
     discounts |-> disc, tax_rate |-> rate, tax_amount |-> tax,
     pol |-> pol, sli_ref |-> <<"0">>]

CsvItems ==
    {CsvItem(<<"X","1">>, <<"a","b"," ","c">>, <<>>, <<"1">>, 999, 0, 0, <<>>, 0, <<>>),
     CsvItem(<<"Y","2">>, LongTitle, <<"c","a","b">>, <<"2">>, 999, 0, 0, <<>>, 0, <<"P","7">>),
     CsvItem(<<>>, <<"b">>, <<>>, <<"1">>, 0, 0, 0, <<"0">>, 0, <<>>),
     CsvItem(<<"Z","3">>, <<"c"," ","a">>, <<>>, <<"0","3">>, 1250, 1250, 0 - 100, <<"8",".","5">>, 85, <<>>),
     CsvItem(<<"X","1">>, <<"a","b"," ","c">>, <<>>, <<"x">>, 999, 0, 0, <<>>, 0, <<>>),
     CsvItem(<<"W","4">>, Blank36, <<>>, <<"1">>, 500, 0, 0, <<>>, 0, <<>>)}

\* parse_workday_excel sets a key only when the cell holds a value; the
\* quantity is an int.
WorkdayItems ==
    {[title |-> <<"a","b"," ","c">>, author |-> <<>>, supplier_item_id |-> <<"X","1">>,
      quantity |-> IntV(2), unit_price |-> 999, list_price |-> 999],
     [title |-> LongTitle, author |-> <<"c","a","b">>, supplier_item_id |-> <<"Y","2">>,
      po_line_ref |-> <<"P","O","1","-","L","i","n","e","1">>, quantity |-> IntV(1), unit_price |-> 1250,
      list_price |-> 1250, pol |-> <<"P","7">>],
     [title |-> <<"b">>, author |-> <<>>, quantity |-> IntV(3)],
     [supplier_item_id |-> <<"Z","3">>, quantity |-> IntV(0), unit_price |-> 500,
      list_price |-> 500],
     [title |-> <<"c"," ","a">>, author |-> <<>>, unit_price |-> 0, list_price |-> 0]}

Items(v) == IF v = "csv" THEN CsvItems ELSE WorkdayItems

ItemLists(v) == UNION {[1..n -> Items(v)] : n \in 0..MaxItems}

InvoiceNumbers == {<<"A","1">>, <<"B","2">>, <<"C","3">>}
InvoiceDate == <<"2","0","2","5","0","1","1","5">>
DueDates == {<<"2","0","2","5","0","1","1","5">>, <<"2","0","2","5","0","2","1","4">>}

CsvInvoice(num, due, line_items) ==
    [invoice_number |-> num, invoice_date |-> InvoiceDate, due_date |-> due,
     api_ref |-> <<"7","0","1","5","-","1","0">>, line_items |-> line_items]

WorkdayInvoice(num, due, amount, tax, line_items) ==
    [invoice_number |-> num, invoice_date |-> InvoiceDate, due_date |-> due,
     api_ref |-> <<"7","0","1","5","-","1","0">>, total_amount |-> amount, total_tax |-> tax,
     line_items |-> line_items]

\* a batch of one invoice, with every list of line items
SingleBatches(v) ==
    IF v = "csv"
    THEN {<<CsvInvoice(<<"A","1">>, d, l)>> : d \in DueDates, l \in ItemLists(v)}
    ELSE {<<WorkdayInvoice(<<"A","1">>, d, a[1], a[2], l)>> :
              d \in DueDates \cup {<<>>},
              a \in {<<0, 0>>, <<2100, 102>>},
              l \in ItemLists(v)}

\* the line items of the invoices of a longer batch
X1 == CsvItem(<<"X","1">>, <<"a","b"," ","c">>, <<>>, <<"1">>, 999, 0, 0, <<>>, 0, <<>>)
Y2 == CsvItem(<<"Y","2">>, <<"b">>, <<"c","a","b">>, <<"2">>, 999, 0, 0, <<>>, 0, <<>>)
Bad == CsvItem(<<"X","1">>, <<"a","b"," ","c">>, <<>>, <<"x">>, 999, 0, 0, <<>>, 0, <<>>)
BatchItemLists == {<<>>, <<X1>>, <<Y2, X1>>, <<Bad>>}

\* parse_amazon_csv groups the rows by Order ID: the invoice numbers of a
\* batch differ; an empty CSV gives an empty batch.
CsvBatches ==
    UNION {{[i \in 1..n |-> CsvInvoice(nums[i], <<"2","0","2","5","0","2","1","4">>, ls[i])] :
                nums \in {f \in [1..n -> InvoiceNumbers] :
                              \A i, j \in 1..n : i # j => f[i] # f[j]},
                ls \in [1..n -> BatchItemLists]} :
           n \in (0..MaxInvoices) \cap (0..Cardinality(InvoiceNumbers))}

\* parse_workday_excel returns one invoice
Batches(v) == IF v = "csv" THEN SingleBatches(v) \cup CsvBatches
              ELSE SingleBatches(v)

(***************************************************************************)
(* convert_amazon_csv_to_edifact / convert_workday_excel_to_edifact,       *)
(* followed by a parse of the file they wrote.                             *)
(***************************************************************************)
Init ==
    /\ variant \in {"csv", "workday"}
    /\ invoices \in Batches(variant)
    /\ interchange_ref \in {None, <<"R","E","F","7">>}
    /\ pc = "start"
    /\ idx = 0
    /\ edi_file = Missing
    /\ parsed = None
    /\ title = <<>>
    /\ chunks = <<>>
    /\ message = <<>>
    /\ csv_rows = <<>> /\ set_call = None

\* if not invoices: raise ValueError(...)
RaiseNoData ==
    /\ pc = "start"
    /\ invoices = <<>>
    /\ pc' = "error"
    /\ UNCHANGED <<variant, invoices, idx, edi_file, interchange_ref, parsed,
                   title, chunks,
                   message, csv_rows, set_call>>

\* generator = EDIFACTInvoiceGenerator(config); open(...); write the headers
WriteHeaders ==
    /\ pc = "start"
    /\ invoices # <<>>
    /\ \E t1, t2 \in Clock :
          /\ t1.tick <= t2.tick
          /\ interchange_ref' = InitInterchangeRef(interchange_ref, t1)
          /\ edi_file' = generate_una_unb_headers(interchange_ref', t2)
    /\ idx' = 1
    /\ pc' = "loop"
    /\ UNCHANGED <<variant, invoices, parsed, title, chunks,
                   message, csv_rows, set_call>>

\* one pass of "for invoice in invoices": an exception of
\* generate_invoice_segments leaves the function; the with statement closes
\* the file as it is
WriteInvoice ==
    /\ pc = "loop"
    /\ idx <= Len(invoices)
    /\ \E now \in Clock :
          LET r == generate_invoice_segments(variant, invoices[idx], now.ymd)
          IN  IF r.ok
              THEN /\ edi_file' = edi_file \o Concat(r.segs)
                   /\ idx' = idx + 1
                   /\ pc' = "loop"
              ELSE /\ pc' = "error"
                   /\ UNCHANGED <<edi_file, idx>>
    /\ UNCHANGED <<variant, invoices, interchange_ref, parsed, title, chunks,
                   message, csv_rows, set_call>>

\* edi_file.write(generator.generate_unz_trailer(len(invoices)))
WriteTrailer ==
    /\ pc = "loop"
    /\ idx > Len(invoices)
    /\ edi_file' = edi_file \o generate_unz_trailer(interchange_ref, Len(invoices))
    /\ pc' = "done"
    /\ UNCHANGED <<variant, invoices, idx, interchange_ref, parsed, title, chunks,
                   message, csv_rows, set_call>>

\* edi_parser: parse_edi(read_edi_file(...))
ParseFile ==
    /\ pc = "done"
    /\ parsed' = parse_edi(edi_file)
    /\ pc' = "parsed"
    /\ UNCHANGED <<variant, invoices, idx, edi_file, interchange_ref, title, chunks,
                   message, csv_rows, set_call>>

Next == RaiseNoData \/ WriteHeaders \/ WriteInvoice \/ WriteTrailer \/ ParseFile

Spec == Init /\ [][Next]_vars

(***************************************************************************)
(* parse_edi on hand-made streams: up to MaxSegs segments of SegmentPool,  *)
(* each closed by the terminator.                                          *)
(***************************************************************************)
SegmentPool ==
    {<<"U","N","H","+","A","1","+","I","N","V","O","I","C",":","D",":","9","6","A",":","U","N",":","E","A","N","0","0","8">>, <<"U","N","H","+","B","2","+","I","N","V","O","I","C",":","D",":","9","6","A",":","U","N",":","E","A","N","0","0","8">>,
     <<"U","N","H">>, <<"B","G","M","+","3","8","0","+","A","1">>,
     <<"D","T","M","+","1","3","7",":","2","0","2","5","0","1","1","5",":","1","0","2">>, <<"D","T","M","+","1","3",":","2","0","2","5","0","2","1","4",":","1","0","2">>,
     <<"L","I","N","+","1","+","+","X","1",":","E","N">>, <<"L","I","N","+","2","+","+","Y","2",":","E","N">>, <<"L","I","N","+","1","+">>, <<"L","I","N">>,
     <<"I","M","D","+","L","+","0","5","0","+",":",":",":","A","B"," ","C">>, <<"Q","T","Y","+","4","7",":","2">>,
     <<"M","O","A","+","2","0","3",":","1","9",".","9","8">>, <<"M","O","A","+","9",":","1","9",".","9","8">>, <<"M","O","A","+","8",":","1",".","0","0">>,
     <<"R","F","F","+","A","P","I",":","7","0","1","5","-","1","0">>}

StreamOf(segs) == Concat([i \in 1..Len(segs) |-> segs[i] \o <<"'">>])

Streams == {StreamOf(s) : s \in UNION {[1..n -> SegmentPool] : n \in 0..MaxSegs}}

InitParse ==
    /\ edi_file \in Streams
    /\ pc = "done"
    /\ parsed = None
    /\ variant = "csv" /\ invoices = <<>> /\ idx = 0 /\ interchange_ref = None
    /\ title = <<>> /\ chunks = <<>> /\ message = <<>> /\ csv_rows = <<>> /\ set_call = None

NextParse == ParseFile

SpecParse == InitParse /\ [][NextParse]_vars

(***************************************************************************)
(* Reading a stream back for the properties: its segments (terminator      *)
(* included), their elements, and its UNH..UNT messages.                   *)
(***************************************************************************)
FileSegments(content) ==
    LET p == Split(content, {"'"})
    IN  [i \in 1..(Len(p) - 1) |-> p[i] \o <<"'">>]

Elements(seg) == Split(SubSeq(seg, 1, Len(seg) - 1), {"+", ":"})
Tag(seg) == El(Elements(seg), 0)

MessagesOf(content) ==
    LET segs == FileSegments(content)
        tags == [i \in 1..Len(segs) |-> Tag(segs[i])]
        last(u) == CHOOSE t \in u..Len(segs) :
                       /\ tags[t] = <<"U","N","T">>
                       /\ \A j \in u..(t - 1) : tags[j] # <<"U","N","T">>
    IN  {SubSeq(segs, u, last(u)) :
            u \in {i \in 1..Len(segs) :
                      /\ tags[i] = <<"U","N","H">>
                      /\ \E t \in i..Len(segs) : tags[t] = <<"U","N","T">>}}

\* the segments of message m with tag tg and first data element q
Tagged(m, tg, q) ==
    {i \in 1..Len(m) :
        /\ Tag(m[i]) = tg
        /\ Len(Elements(m[i])) > 2
        /\ El(Elements(m[i]), 1) = q}

RECURSIVE SumQuantities(_, _)
SumQuantities(m, I) ==
    IF I = {} THEN 0
    ELSE LET i == CHOOSE x \in I : TRUE
         IN  ParseInt(El(Elements(m[i]), 2)).v + SumQuantities(m, I \ {i})

LinCount(m) == Cardinality({i \in 1..Len(m) : Tag(m[i]) = <<"L","I","N">>})
QtySum(m) == SumQuantities(m, Tagged(m, <<"Q","T","Y">>, <<"4","7">>))

(***************************************************************************)
(* C1: in every message written by either generator, CNT+2 is the number   *)
(* of LIN segments of the message and CNT+1 is the sum of the quantities   *)
(* of its QTY+47 segments.                                                 *)
(***************************************************************************)
C1_ControlTotalsMatch ==
    pc \in {"loop", "done"} =>
        \A m \in MessagesOf(edi_file) :
            /\ Cardinality(Tagged(m, <<"C","N","T">>, <<"1">>)) = 1
            /\ Cardinality(Tagged(m, <<"C","N","T">>, <<"2">>)) = 1
            /\ \A i \in Tagged(m, <<"C","N","T">>, <<"2">>) :
                   El(Elements(m[i]), 2) = IntStr(LinCount(m))
            /\ \A i \in Tagged(m, <<"C","N","T">>, <<"1">>) :
                   El(Elements(m[i]), 2) = IntStr(QtySum(m))

\* a Workday message of two lines whose quantities are not all 1
C1_Witness ==
    /\ pc = "done"
    /\ variant = "workday"
    /\ \E m \in MessagesOf(edi_file) : LinCount(m) = 2 /\ QtySum(m) > 2

(***************************************************************************)
(* C2: for invoices with pairwise distinct invoice numbers, parse_edi of   *)
(* the generated stream returns one entry per invoice, keyed by the        *)
(* invoice number, in input order; the entry's invoice_number is its key   *)
(* and its lines are line_1 .. line_N in input order, each with the        *)
(* quantity string emitted for the item and the item identifier.           *)
(***************************************************************************)
DistinctNumbers ==
    \A i, j \in 1..Len(invoices) :
        i # j => invoices[i].invoice_number # invoices[j].invoice_number

C2_RoundTripEntries ==
    (pc = "parsed" /\ DistinctNumbers) =>
        /\ parsed.err = "none"
        /\ Keys(parsed.data) = [i \in 1..Len(invoices) |-> invoices[i].invoice_number]
        /\ \A i \in 1..Len(invoices) :
              LET entry == parsed.data[i].v
                  items == invoices[i].line_items
              IN  /\ entry.invoice_number = parsed.data[i].k
                  /\ Keys(entry.lines) = [j \in 1..Len(items) |-> <<"l","i","n","e","_">> \o IntStr(j)]
                  /\ \A j \in 1..Len(items) :
                        /\ entry.lines[j].v.quantity = PyStr(EmittedQuantity(items[j]))
                        /\ entry.lines[j].v.item_number
                               = Get(items[j], ItemIdKey(variant), <<>>)

\* a parsed batch of two invoices, one of them with two lines
C2_Witness ==
    /\ pc = "parsed"
    /\ Len(invoices) = 2
    /\ Len(parsed.data) = 2
    /\ \E i \in 1..2 : Len(parsed.data[i].v.lines) = 2

(***************************************************************************)
(* C3: the amount parse_edi returns for a line (from MOA+203) is           *)
(* unit_price x quantity written with exactly 2 decimals, for every        *)
(* quantity and price, quantity 1 and price 0.00 included.                 *)
(***************************************************************************)
\* text is digits, a point and exactly two digits, worth c hundredths
IsTwoDecimalsOf(text, c) ==
    LET p == Split(text, {"."})
    IN  /\ Len(p) = 2
        /\ Len(p[2]) = 2
        /\ ParseInt(p[1]).ok
        /\ ParseInt(p[2]).ok
        /\ ParseInt(p[1]).v * 100 + ParseInt(p[2]).v = c

C3_LineAmountIsPriceTimesQuantity ==
    (pc = "parsed" /\ parsed.err = "none" /\ Len(parsed.data) = Len(invoices)) =>
        \A i \in 1..Len(invoices) :
            LET lines == parsed.data[i].v.lines
                items == invoices[i].line_items
            IN  /\ Len(lines) = Len(items)
                /\ \A j \in 1..Len(items) :
                      IsTwoDecimalsOf(lines[j].v.amount,
                          Get(items[j], "unit_price", 0)
                          * ParseInt(lines[j].v.quantity).v)

\* a parsed invoice with a line of quantity 1 and price 0.00 and a line of
\* a larger quantity and a price above 0
C3_Witness ==
    /\ pc = "parsed"
    /\ parsed.err = "none"
    /\ \E i \in 1..Len(parsed.data) :
          LET lines == parsed.data[i].v.lines
          IN  /\ \E j \in 1..Len(lines) :
                    lines[j].v.quantity = <<"1">> /\ lines[j].v.amount = <<"0",".","0","0">>
              /\ \E j \in 1..Len(lines) :
                    lines[j].v.quantity = <<"2">> /\ lines[j].v.amount = <<"1","9",".","9","8">>

(***************************************************************************)
(* C9: after a message with more than one DTM segment is parsed, its       *)
(* invoice_date is the date of the first DTM segment of the message: for a *)
(* generated message with a due date, the DTM+137 invoice date.            *)
(***************************************************************************)
C9_InvoiceDateIsFirstDTM ==
    (pc = "parsed" /\ parsed.err = "none") =>
        \A m \in MessagesOf(edi_file) :
            LET dtm == {i \in 1..Len(m) : Tag(m[i]) = <<"D","T","M">>}
                first == CHOOSE i \in dtm : \A j \in dtm : i <= j
            IN  Cardinality(dtm) > 1 =>
                    Lookup(parsed.data, El(Elements(m[1]), 1)).invoice_date
                        = El(Elements(m[first]), 2)

(***************************************************************************)
(* C10: when the generation of one invoice of a batch fails, the messages  *)
(* of all the other invoices, those after the failing one included, are    *)
(* still generated and written to the output.                              *)
(***************************************************************************)
C10_OtherInvoicesStillWritten ==
    (pc \in {"error", "done"} /\ invoices # <<>>) =>
        \A i \in 1..Len(invoices) :
            LET r == generate_invoice_segments(variant, invoices[i], InvoiceDate)
            IN  r.ok => r.segs \in MessagesOf(edi_file)

(***************************************************************************)
(* Hand-made streams: which segments lack the element their tag reads      *)
(* without a length test, and which are line segments met after a UNH and  *)
(* before the first LIN of that message.                                   *)
(***************************************************************************)
IsShort(seg) == Tag(seg) \in {<<"U","N","H">>, <<"L","I","N">>} /\ Len(Elements(seg)) < 2

IsLineData(seg) ==
    \/ Tag(seg) \in {<<"I","M","D">>, <<"Q","T","Y">>}
    \/ /\ Tag(seg) = <<"M","O","A">>
       /\ Len(Elements(seg)) > 2
       /\ El(Elements(seg), 1) = <<"2","0","3">>

BeforeFirstLIN(segs, i) ==
    /\ IsLineData(segs[i])
    /\ \E u \in 1..(i - 1) :
          /\ Tag(segs[u]) = <<"U","N","H">>
          /\ \A j \in (u + 1)..(i - 1) : Tag(segs[j]) \notin {<<"U","N","H">>, <<"L","I","N">>}

\* the stream without the segments at the positions in D
RECURSIVE Without(_, _, _)
Without(segs, D, i) ==
    IF i > Len(segs) THEN <<>>
    ELSE (IF i \in D THEN <<>> ELSE segs[i]) \o Without(segs, D, i + 1)

(***************************************************************************)
(* C6: a stream without any UNH segment, whatever else it holds (LIN, IMD, *)
(* QTY, MOA+203, MOA+9 ...), gives an empty mapping and no error.          *)
(***************************************************************************)
C6_NoUNHGivesEmptyMapping ==
    LET segs == FileSegments(edi_file)
    IN  (/\ pc = "parsed"
         /\ \A i \in 1..Len(segs) : Tag(segs[i]) # <<"U","N","H">> /\ ~IsShort(segs[i]))
        => parsed = [err |-> "none", data |-> <<>>]

(***************************************************************************)
(* C7: parse_edi returns without raising also when a segment has fewer     *)
(* elements than its tag needs (a bare UNH, a bare LIN): reading the       *)
(* missing element never ends the parse.                                   *)
(***************************************************************************)
C7_ShortSegmentDoesNotRaise ==
    pc = "parsed" => parsed.err # "IndexError"

(***************************************************************************)
(* C8: a UNH resets the line state: IMD, QTY and MOA+203 segments between  *)
(* a UNH and the first LIN of that message raise no error and change no    *)
(* line of any message, so the stream parses as it does without them.      *)
(***************************************************************************)
C8_UNHResetsLineState ==
    LET segs == FileSegments(edi_file)
        D == {i \in 1..Len(segs) : BeforeFirstLIN(segs, i)}
    IN  (/\ pc = "parsed"
         /\ segs # <<>>
         /\ Tag(segs[1]) = <<"U","N","H">>
         /\ \A i \in 1..Len(segs) : ~IsShort(segs[i]))
        => /\ parsed.err = "none"
           /\ parsed = parse_edi(Without(segs, D, 1))

(***************************************************************************)
(* The stream as a whole: a complete stream is the UNA/UNB header, then    *)
(* UNH..UNT messages one after the other with nothing between them, then   *)
(* one UNZ trailer.                                                        *)
(***************************************************************************)
\* the <<first, last>> positions of the UNH..UNT messages of segs
MessageRanges(segs) ==
    LET tags == [i \in 1..Len(segs) |-> Tag(segs[i])]
        unts(u) == {t \in u..Len(segs) : tags[t] = <<"U","N","T">>}
    IN  {<<u, CHOOSE t \in unts(u) : \A x \in unts(u) : t <= x>> :
            u \in {i \in 1..Len(segs) : tags[i] = <<"U","N","H">> /\ unts(i) # {}}}

\* the positions of segs that lie in a message
InMessage(segs) ==
    LET R == MessageRanges(segs)
    IN  {i \in 1..Len(segs) : \E r \in R : r[1] <= i /\ i <= r[2]}

CompleteStream(content) ==
    LET segs == FileSegments(content)
    IN  /\ Len(segs) >= 3
        /\ segs[1] = <<"U","N","A",":","+",".","?"," ","'">>
        /\ Tag(segs[2]) = <<"U","N","B">>
        /\ Tag(segs[Len(segs)]) = <<"U","N","Z">>
        /\ InMessage(segs) = 3..(Len(segs) - 1)

(***************************************************************************)
(* C11: every conversion run over a batch of invoices ends with the output *)
(* file holding a complete stream: the UNA/UNB header, one complete        *)
(* UNH..UNT message per invoice and the UNZ trailer.                       *)
(***************************************************************************)
C11_RunEndsWithCompleteStream ==
    (pc \in {"error", "done", "parsed"} /\ invoices # <<>>) =>
        /\ edi_file # Missing
        /\ CompleteStream(edi_file)
        /\ Cardinality(MessageRanges(FileSegments(edi_file))) = Len(invoices)

(***************************************************************************)
(* C12: a line item whose quantity is not a number does not make the       *)
(* generation raise: its line is emitted with quantity 1.                  *)
(***************************************************************************)
C12_BadQuantityBecomesOne ==
    pc \in {"loop", "error", "done"} =>
        \A i \in 1..Len(invoices) :
            \A j \in 1..Len(invoices[i].line_items) :
                LET item == invoices[i].line_items[j]
                    r == generate_line_item_segments(variant, item, j)
                IN  ~PyInt(EmittedQuantity(item)).ok =>
                        /\ r.ok
                        /\ \E k \in 1..Len(r.segs) : r.segs[k] = <<"Q","T","Y","+","4","7",":","1","'">>

(***************************************************************************)
(* The stream a whole conversion run writes when it runs at the clock      *)
(* reading now with the interchange reference ref given in the config.     *)
(***************************************************************************)
RECURSIVE InvoicesText(_, _, _, _)
InvoicesText(v, invs, i, now) ==
    IF i > Len(invs) THEN <<>>
    ELSE Concat(generate_invoice_segments(v, invs[i], now.ymd).segs)
         \o InvoicesText(v, invs, i + 1, now)

ConvertOutput(v, invs, ref, now) ==
    generate_una_unb_headers(InitInterchangeRef(ref, now), now)
    \o InvoicesText(v, invs, 1, now)
    \o generate_unz_trailer(InitInterchangeRef(ref, now), Len(invs))

(***************************************************************************)
(* C13: with the same injected interchange_ref and the same invoices, the  *)
(* stream a run has written is byte for byte the stream of any other run,  *)
(* whatever the time at which that run executes.                           *)
(***************************************************************************)
C13_SameInputSameStream ==
    (pc = "done" /\ interchange_ref = <<"R","E","F","7">>) =>
        \A now \in Clock :
            edi_file = ConvertOutput(variant, invoices, interchange_ref, now)

(***************************************************************************)
(* The order of the segments of a message.  A matcher walks the message    *)
(* from position i and returns the position after what it matched; 0 says  *)
(* that a required segment is not there.  e[i] is the element list of the  *)
(* i-th segment; a pattern is a prefix of an element list.                 *)
(***************************************************************************)
Is(e, i, pat) ==
    /\ i > 0
    /\ i <= Len(e)
    /\ Len(e[i]) >= Len(pat)
    /\ SubSeq(e[i], 1, Len(pat)) = pat

Req(e, i, pat) == IF Is(e, i, pat) THEN i + 1 ELSE 0
Opt(e, i, pat) == IF Is(e, i, pat) THEN i + 1 ELSE i

\* optional ALC/MOA+8 charge pairs
RECURSIVE Charges(_, _)
Charges(e, i) ==
    IF Is(e, i, <<<<"A","L","C">>, <<"C">>>>)
    THEN Charges(e, Req(e, i + 1, <<<<"M","O","A">>, <<"8">>>>))
    ELSE i

RECURSIVE MoreTitle(_, _)
MoreTitle(e, i) ==
    IF Is(e, i, <<<<"I","M","D">>, <<"L">>, <<"0","5","0">>>>) THEN MoreTitle(e, i + 1) ELSE i

\* the segments of one line item
LineOrder(e, i) ==
    LET a == Req(e, i, <<<<"L","I","N">>>>)
        b == Opt(e, a, <<<<"I","M","D">>, <<"L">>, <<"0","1","0">>>>)
        c == MoreTitle(e, Req(e, b, <<<<"I","M","D">>, <<"L">>, <<"0","5","0">>>>))
        d == Req(e, c, <<<<"Q","T","Y">>, <<"4","7">>>>)
        f == Req(e, d, <<<<"M","O","A">>, <<"2","0","3">>>>)
        g == Req(e, f, <<<<"P","R","I">>, <<"A","A","B">>>>)
        h == Req(e, g, <<<<"P","R","I">>, <<"A","A","A">>>>)
        t == IF Is(e, h, <<<<"T","A","X">>, <<"7">>>>)
             THEN Opt(e, h + 1, <<<<"M","O","A">>, <<"1","2","4">>>>)
             ELSE h
        l == Opt(e, t, <<<<"R","F","F">>, <<"L","I">>>>)
    IN  Req(e, l, <<<<"R","F","F">>, <<"S","L","I">>>>)

RECURSIVE LinesOrder(_, _)
LinesOrder(e, i) ==
    IF Is(e, i, <<<<"L","I","N">>>>) THEN LinesOrder(e, LineOrder(e, i)) ELSE i

MessageOrder(m) ==
    LET e == [i \in 1..Len(m) |-> Elements(m[i])]
        a == Req(e, 1, <<<<"U","N","H">>>>)
        b == Req(e, a, <<<<"B","G","M">>, <<"3","8","0">>>>)
        c == Req(e, b, <<<<"D","T","M">>, <<"1","3","7">>>>)
        d == Opt(e, c, <<<<"D","T","M">>, <<"1","3">>>>)
        f == Req(e, d, <<<<"R","F","F">>, <<"A","P","I">>>>)
        g == Req(e, f, <<<<"R","F","F">>, <<"V","A">>>>)
        h == Req(e, g, <<<<"C","U","X">>, <<"2">>>>)
        l == LinesOrder(e, Charges(e, h))
        s == Req(e, l, <<<<"U","N","S">>, <<"S">>>>)
        t == Req(e, s, <<<<"C","N","T">>, <<"1">>>>)
        u == Req(e, t, <<<<"C","N","T">>, <<"2">>>>)
        w == Req(e, u, <<<<"M","O","A">>, <<"9">>>>)
        x == Req(e, w, <<<<"M","O","A">>, <<"7","9">>>>)
        y == Opt(e, x, <<<<"M","O","A">>, <<"1","7","6">>>>)
    IN  Req(e, y, <<<<"U","N","T">>>>) = Len(m) + 1

(***************************************************************************)
(* C14: every generated message is, in this order and with no other        *)
(* segment: UNH, BGM, DTM+137, optional DTM+13, RFF+API, RFF+VA, CUX,      *)
(* optional ALC/MOA+8 pairs; per line item LIN, optional IMD+L+010, one or *)
(* more IMD+L+050, QTY, MOA+203, PRI+AAB, PRI+AAA, optional TAX with       *)
(* optional MOA+124, optional RFF+LI, RFF+SLI; then UNS, CNT+1, CNT+2,     *)
(* MOA+9, MOA+79, optional MOA+176, UNT.  Every line item has at least one *)
(* IMD+L+050 segment.                                                      *)
(***************************************************************************)
C14_MessageSegmentOrder ==
    pc \in {"loop", "done"} =>
        \A m \in MessagesOf(edi_file) : MessageOrder(m)

(***************************************************************************)
(* The messages of the written file, in stream order: the k-th message is  *)
(* the one of invoices[k].                                                 *)
(***************************************************************************)
WrittenSegments == FileSegments(edi_file)

\* the range of the k-th message of segs
NthRange(segs, k) ==
    LET R == MessageRanges(segs)
    IN  CHOOSE r \in R : Cardinality({q \in R : q[1] < r[1]}) = k - 1

NthMessage(segs, k) == SubSeq(segs, NthRange(segs, k)[1], NthRange(segs, k)[2])

\* the position in m of its j-th segment with tag tg
NthTagged(m, tg, j) ==
    LET L == {i \in 1..Len(m) : Tag(m[i]) = tg}
    IN  CHOOSE p \in L : Cardinality({q \in L : q < p}) = j - 1

\* the sum of f over the index set I
RECURSIVE SumOver(_, _)
SumOver(f, I) ==
    IF I = {} THEN 0
    ELSE LET i == CHOOSE x \in I : TRUE IN f[i] + SumOver(f, I \ {i})

(***************************************************************************)
(* C15: in every generated message the UNT segment is the last segment,    *)
(* its count is the number of segments of the message from UNH to UNT      *)
(* inclusive, and its reference is the reference of the message's UNH.     *)
(***************************************************************************)
C15_UNTClosesMessage ==
    pc \in {"loop", "done"} =>
        LET segs == WrittenSegments
            R == MessageRanges(segs)
        IN  /\ Cardinality(R) = idx - 1
            /\ InMessage(segs) = 3..(Len(segs) - (IF pc = "done" THEN 1 ELSE 0))
            /\ \A r \in R :
                  LET unt == Elements(segs[r[2]])
                  IN  /\ Len(unt) = 3
                      /\ unt[2] = IntStr(r[2] - r[1] + 1)
                      /\ unt[3] = El(Elements(segs[r[1]]), 1)

\* a finished run of two invoices, one of them with two lines
C15_Witness ==
    /\ pc = "done"
    /\ Cardinality(MessageRanges(WrittenSegments)) = 2
    /\ \E k \in 1..2 : LinCount(NthMessage(WrittenSegments, k)) = 2

(***************************************************************************)
(* C16: the stream of a completed run ends with exactly one UNZ segment;   *)
(* its message count is the number of UNH..UNT messages of the stream and  *)
(* its reference is the interchange reference of the UNB header.           *)
(***************************************************************************)
C16_UNZMatchesStream ==
    pc = "done" =>
        LET segs == WrittenSegments
            unz == Elements(segs[Len(segs)])
            unb == Elements(segs[2])
        IN  /\ {i \in 1..Len(segs) : Tag(segs[i]) = <<"U","N","Z">>} = {Len(segs)}
            /\ Tag(segs[2]) = <<"U","N","B">>
            /\ Len(unz) = 3
            /\ unz[2] = IntStr(Cardinality(MessageRanges(segs)))
            /\ unz[3] = unb[Len(unb)]

\* a finished run of two invoices whose reference was generated from the clock
C16_Witness ==
    /\ pc = "done"
    /\ Len(invoices) = 2
    /\ interchange_ref \in {c.stamp : c \in Clock}
    /\ Cardinality(MessageRanges(WrittenSegments)) = 2

(***************************************************************************)
(* C17: the i-th line item of an invoice is emitted with LIN number i: the *)
(* LIN numbers of a message in stream order are 1..N, and the segments of  *)
(* line i (its item identifier, its quantity) come before the LIN of line  *)
(* i+1.                                                                    *)
(***************************************************************************)
C17_LinNumbersFollowInput ==
    pc \in {"loop", "done"} =>
        \A k \in 1..(idx - 1) :
            LET m == NthMessage(WrittenSegments, k)
                items == invoices[k].line_items
                lin(j) == IF j <= Len(items) THEN NthTagged(m, <<"L","I","N">>, j)
                          ELSE Len(m)
            IN  /\ LinCount(m) = Len(items)
                /\ \A j \in 1..Len(items) :
                      /\ El(Elements(m[lin(j)]), 1) = IntStr(j)
                      /\ El(Elements(m[lin(j)]), 3)
                             = Get(items[j], ItemIdKey(variant), <<>>)
                      /\ \E q \in (lin(j) + 1)..(lin(j + 1) - 1) :
                            m[q] = <<"Q","T","Y","+","4","7",":">> \o PyStr(EmittedQuantity(items[j]))
                                   \o <<"'">>

\* a written message of two lines with different item identifiers
C17_Witness ==
    /\ pc = "done"
    /\ \E k \in 1..Len(invoices) :
          /\ Len(invoices[k].line_items) = 2
          /\ Get(invoices[k].line_items[1], ItemIdKey(variant), <<>>)
                 # Get(invoices[k].line_items[2], ItemIdKey(variant), <<>>)
          /\ LinCount(NthMessage(WrittenSegments, k)) = 2

(***************************************************************************)
(* C18: in the CSV variant MOA+9 is the sum over the line items of         *)
(* unit_price x quantity plus the sum of the shipping amounts, and MOA+79  *)
(* is that gross total plus the sum of the discounts plus the sum of the   *)
(* tax amounts (amounts as exact 2-decimal values).                        *)
(***************************************************************************)
C18_CsvTotalsAreSums ==
    (variant = "csv" /\ pc \in {"loop", "done"}) =>
        \A k \in 1..(idx - 1) :
            LET m == NthMessage(WrittenSegments, k)
                items == invoices[k].line_items
                I == 1..Len(items)
                goods == SumOver([j \in I |-> items[j].unit_price
                                      * ParseInt(items[j].quantity.v).v], I)
                gross == goods + SumOver([j \in I |-> items[j].shipping], I)
                net == gross + SumOver([j \in I |-> items[j].discounts], I)
                             + SumOver([j \in I |-> items[j].tax_amount], I)
            IN  /\ Cardinality(Tagged(m, <<"M","O","A">>, <<"9">>)) = 1
                /\ Cardinality(Tagged(m, <<"M","O","A">>, <<"7","9">>)) = 1
                /\ \A i \in Tagged(m, <<"M","O","A">>, <<"9">>) :
                      IsTwoDecimalsOf(El(Elements(m[i]), 2), gross)
                /\ \A i \in Tagged(m, <<"M","O","A">>, <<"7","9">>) :
                      IsTwoDecimalsOf(El(Elements(m[i]), 2), net)

\* a written CSV message of two lines with shipping, a discount and tax
C18_Witness ==
    /\ pc = "done"
    /\ variant = "csv"
    /\ \E k \in 1..Len(invoices) :
          LET items == invoices[k].line_items
          IN  /\ Len(items) = 2
              /\ \E j \in 1..2 : /\ items[j].shipping > 0
                                 /\ items[j].discounts < 0
                                 /\ items[j].tax_amount > 0
              /\ \E j \in 1..2 : items[j].quantity.v = <<"2">>
              /\ Cardinality(Tagged(NthMessage(WrittenSegments, k), <<"M","O","A">>, <<"7","9">>)) = 1

(***************************************************************************)
(* Messages of a hand-made stream that share a UNH reference.              *)
(***************************************************************************)
\* the positions of the UNH segments of segs with reference ref
HeadersOf(segs, ref) ==
    {i \in 1..Len(segs) :
        /\ Tag(segs[i]) = <<"U","N","H">>
        /\ Len(Elements(segs[i])) > 1
        /\ El(Elements(segs[i]), 1) = ref}

\* the text of the last message of segs with reference ref: from its UNH
\* to the segment before the next UNH, or to the end
LastMessageText(segs, ref) ==
    LET H == HeadersOf(segs, ref)
        u == CHOOSE i \in H : \A j \in H : j <= i
        N == {i \in (u + 1)..Len(segs) : Tag(segs[i]) = <<"U","N","H">>}
        e == IF N = {} THEN Len(segs)
             ELSE (CHOOSE i \in N : \A j \in N : i <= j) - 1
    IN  Concat(SubSeq(segs, u, e))

(***************************************************************************)
(* C19: when two or more messages of a stream carry the same UNH           *)
(* reference, the mapping parse_edi returns holds one entry for that       *)
(* reference, and the entry is the one the last such message gives alone:  *)
(* no line, date or total of an earlier message remains.                   *)
(***************************************************************************)
C19_LastMessageWins ==
    (pc = "parsed" /\ parsed.err = "none") =>
        LET segs == FileSegments(edi_file)
        IN  \A ref \in {<<"A","1">>, <<"B","2">>} :
                Cardinality(HeadersOf(segs, ref)) >= 2 =>
                    LET alone == parse_edi(LastMessageText(segs, ref))
                    IN  /\ Cardinality({i \in 1..Len(parsed.data) :
                                           parsed.data[i].k = ref}) = 1
                        /\ alone.err = "none"
                        /\ Lookup(parsed.data, ref) = Lookup(alone.data, ref)

\* a stream with two messages A1, the first with a date, a line or a total,
\* the last without
C19_Witness ==
    /\ pc = "parsed"
    /\ parsed.err = "none"
    /\ LET segs == FileSegments(edi_file)
           H == HeadersOf(segs, <<"A","1">>)
       IN  /\ Cardinality(H) = 2
           /\ \E i \in 1..Len(segs) :
                 /\ Tag(segs[i]) \in {<<"L","I","N">>, <<"D","T","M">>, <<"M","O","A">>}
                 /\ \E u \in H : u < i
                 /\ \E u \in H : i < u
           /\ Lookup(parsed.data, <<"A","1">>) = NewMessage

(***************************************************************************)
(* C20: when parse_edi parses a generated stream, the description of each  *)
(* line is the uppercased title of the source line item, for line items    *)
(* with and without an author.                                             *)
(***************************************************************************)
C20_DescriptionIsTitle ==
    (pc = "parsed" /\ parsed.err = "none" /\ Len(parsed.data) = Len(invoices)) =>
        \A i \in 1..Len(invoices) :
            LET lines == parsed.data[i].v.lines
                items == invoices[i].line_items
            IN  /\ Len(lines) = Len(items)
                /\ \A j \in 1..Len(items) :
                      lines[j].v.description
                          = str_upper(Get(items[j], "title", <<>>))

(***************************************************************************)
(* Direct calls of generate_invoice_segments: the invoice dict is any dict *)
(* a caller can pass, so keys may be missing and the .get defaults of the  *)
(* generator apply.  invoices holds the one dict of the call.              *)
(***************************************************************************)
GenItem(v, id, ttl, auth, qty, price, ship, disc, rate, tax, pol) ==
    IF v = "csv"
    THEN CsvItem(id, ttl, auth, qty, price, ship, disc, rate, tax, pol)
    ELSE [supplier_item_id |-> id, title |-> ttl, author |-> auth,
          quantity |-> IntV(ParseInt(qty).v), unit_price |-> price,
          list_price |-> price, shipping |-> ship, discounts |-> disc,
          tax_rate |-> rate, tax_amount |-> tax, pol |-> pol,
          po_line_ref |-> <<"0">>]

GenItems(v) ==
    {GenItem(v, <<"X","1">>, <<"a","b"," ","c">>, <<>>, <<"1">>, 999, 0, 0, <<>>, 0, <<>>),
     GenItem(v, <<"Z","3">>, <<"c"," ","a">>, <<>>, <<"3">>, 1250, 1250, 0 - 100, <<"8",".","5">>, 85, <<>>),
     GenItem(v, <<"Y","2">>, <<"b">>, <<"c","a","b">>, <<"2">>, 999, 0, 0, <<"8",".","5">>, 0, <<"P","7">>),
     GenItem(v, <<>>, <<"b">>, <<>>, <<"1">>, 0, 0, 0, <<"0">>, 85, <<>>),
     GenItem(v, <<"W","4">>, <<"a","b"," ","c">>, <<>>, <<"1">>, 500, 500, 0, <<>>, 85, <<>>),
     [title |-> <<"b">>],
     [title |-> <<"b">>, quantity |-> StrV(<<"x">>)]}

GenItemLists(v) == UNION {[1..n -> GenItems(v)] : n \in 0..MaxItems}

\* the keys of the dict other than line_items
GenDates ==
    {[invoice_number |-> <<"A","1">>, invoice_date |-> InvoiceDate,
      due_date |-> <<"2","0","2","5","0","2","1","4">>, api_ref |-> <<"7","0","1","5","-","1","0">>],
     [invoice_number |-> <<"A","1">>, invoice_date |-> InvoiceDate,
      due_date |-> InvoiceDate, api_ref |-> <<"7","0","1","5","-","1","0">>],
     [invoice_number |-> <<"A","1">>, invoice_date |-> InvoiceDate, due_date |-> <<>>],
     [invoice_number |-> <<"A","1">>, invoice_date |-> InvoiceDate],
     [invoice_number |-> <<"A","1">>, due_date |-> <<"2","0","2","5","0","3","0","1">>]}

GenTotals ==
    {[total_amount |-> 0, total_tax |-> 0],
     [total_amount |-> 2100, total_tax |-> 102],
     [total_amount |-> 2100],
     [total_tax |-> 102]}

GenHeaders(v) ==
    IF v = "csv" THEN GenDates
    ELSE GenDates \cup {d @@ t : d \in GenDates, t \in GenTotals}

GenInvoices(v) ==
    {h @@ [line_items |-> l] : h \in GenHeaders(v), l \in GenItemLists(v)}

InitGen ==
    /\ variant \in {"csv", "workday"}
    /\ invoices \in {<<inv>> : inv \in GenInvoices(variant)}
    /\ pc = "g_start"
    /\ message = <<>>
    /\ idx = 0 /\ edi_file = Missing /\ interchange_ref = None /\ parsed = None
    /\ title = <<>> /\ chunks = <<>> /\ csv_rows = <<>> /\ set_call = None

\* segments = generator.generate_invoice_segments(invoice_data)
Generate ==
    /\ pc = "g_start"
    /\ \E now \in Clock :
          LET r == generate_invoice_segments(variant, invoices[1], now.ymd)
          IN  IF r.ok
              THEN message' = r.segs /\ pc' = "g_done"
              ELSE message' = message /\ pc' = "g_error"
    /\ UNCHANGED <<variant, invoices, idx, edi_file, interchange_ref, parsed,
                   title, chunks, csv_rows, set_call>>

NextGen == Generate

SpecGen == InitGen /\ [][NextGen]_vars

(***************************************************************************)
(* Reading the message a direct call returned.                             *)
(***************************************************************************)
CallItems == Get(invoices[1], "line_items", <<>>)

\* the positions of the segments of the message that start with pat
At(pat) ==
    LET e == [i \in 1..Len(message) |-> Elements(message[i])]
    IN  {i \in 1..Len(message) : Is(e, i, pat)}

\* the amount (third element) of the segment at position i is c hundredths
AmountAt(i, c) == IsTwoDecimalsOf(El(Elements(message[i]), 2), c)

ShippingTotal ==
    SumOver([j \in 1..Len(CallItems) |-> Get(CallItems[j], "shipping", 0)],
            1..Len(CallItems))

GoodsAndShipping ==
    SumOver([j \in 1..Len(CallItems) |->
                Get(CallItems[j], "unit_price", 0)
                * PyInt(EmittedQuantity(CallItems[j])).v],
            1..Len(CallItems))
    + ShippingTotal

\* the positions of the segments of the j-th line item: from its LIN to the
\* segment before the next LIN, or before UNS
LineBlock(j) ==
    LET first == NthTagged(message, <<"L","I","N">>, j)
        last == IF j < Len(CallItems) THEN NthTagged(message, <<"L","I","N">>, j + 1) - 1
                ELSE NthTagged(message, <<"U","N","S">>, 1) - 1
    IN  first..last

(***************************************************************************)
(* C21: the freight charge segment is in a message if and only if the sum  *)
(* of the line shipping amounts is greater than 0; then it is there once   *)
(* and directly followed by MOA+8 with the shipping total; an MOA+8 is     *)
(* never there without the ALC segment it belongs to.                      *)
(***************************************************************************)
C21_FreightChargeIffShipping ==
    pc = "g_done" =>
        LET F == {i \in 1..Len(message) :
                     message[i] = <<"A","L","C","+","C","+","+","+","+","D","L",":",":","2","8",":","F","r","e","i","g","h","t"," ","C","h","a","r","g","e","s","'">>}
        IN  /\ (ShippingTotal > 0) <=> (F # {})
            /\ Cardinality(F) <= 1
            /\ \A i \in F : (i + 1) \in At(<<<<"M","O","A">>, <<"8">>>>)
                            /\ AmountAt(i + 1, ShippingTotal)
            /\ \A i \in At(<<<<"M","O","A">>, <<"8">>>>) : (i - 1) \in At(<<<<"A","L","C">>, <<"C">>>>)
            /\ variant = "csv" => Cardinality(At(<<<<"M","O","A">>, <<"8">>>>)) = Cardinality(F)

\* a message of two lines, one with shipping 12.50 and one with none
C21_Witness ==
    /\ pc = "g_done"
    /\ Len(CallItems) = 2
    /\ ShippingTotal = 1250
    /\ \E i \in At(<<<<"M","O","A">>, <<"8">>>>) : message[i] = <<"M","O","A","+","8",":","1","2",".","5","0","'">>

(***************************************************************************)
(* C22: DTM+137 is emitted exactly once; DTM+13 is emitted if and only if  *)
(* the invoice has a non-empty due_date that differs from its invoice date *)
(* (today's date when the record has none), and then directly after        *)
(* DTM+137.                                                                *)
(***************************************************************************)
C22_DueDateSegment ==
    pc = "g_done" =>
        LET D137 == At(<<<<"D","T","M">>, <<"1","3","7">>>>)
            D13 == At(<<<<"D","T","M">>, <<"1","3">>>>)
            due == Get(invoices[1], "due_date", <<>>)
        IN  /\ Cardinality(D137) = 1
            /\ Cardinality(D13) <= 1
            /\ \A p \in D137 :
                  LET date == El(Elements(message[p]), 2)
                  IN  /\ IF "invoice_date" \in DOMAIN invoices[1]
                         THEN date = invoices[1].invoice_date
                         ELSE date \in {c.ymd : c \in Clock}
                      /\ (due # <<>> /\ due # date) <=> (D13 # {})
                      /\ \A q \in D13 : /\ q = p + 1
                                        /\ El(Elements(message[q]), 2) = due

\* a message with DTM+13 whose invoice date is the default, and one without
\* DTM+13 because the due date is that default
C22_Witness ==
    /\ pc = "g_done"
    /\ "invoice_date" \notin DOMAIN invoices[1]
    /\ At(<<<<"D","T","M">>, <<"1","3">>>>) # {}

SalesTaxPair ==
    LET S == {i \in 1..Len(message) : message[i] = <<"A","L","C","+","C","+","+","+","+","T","X",":",":","2","8",":","S","a","l","e","s"," ","T","a","x","'">>}
        tax == Get(invoices[1], "total_tax", 0)
    IN  /\ (tax > 0) <=> (S # {})
        /\ Cardinality(S) <= 1
        /\ \A i \in S : (i + 1) \in At(<<<<"M","O","A">>, <<"8">>>>) /\ AmountAt(i + 1, tax)

C28_TaxSegments ==
    pc = "g_done" =>
        /\ \A i \in At(<<<<"M","O","A">>, <<"1","2","4">>>>) : (i - 1) \in At(<<<<"T","A","X">>, <<"7">>, <<"V","A","T">>>>)
        /\ \A j \in 1..Len(CallItems) :
              LET rate == Get(CallItems[j], "tax_rate", <<>>)
                  amount == Get(CallItems[j], "tax_amount", 0)
                  T == At(<<<<"T","A","X">>, <<"7">>, <<"V","A","T">>>>) \cap LineBlock(j)
                  M == At(<<<<"M","O","A">>, <<"1","2","4">>>>) \cap LineBlock(j)
              IN  /\ (rate # <<>> /\ rate # <<"0">>) <=> (T # {})
                  /\ Cardinality(T) <= 1
                  /\ (M # {}) <=> (T # {} /\ amount > 0)
                  /\ \A q \in M : (q - 1) \in T /\ AmountAt(q, amount)

\* a message with a line that has TAX and MOA+124 and a line with a tax
\* amount but no rate
C28_Witness ==
    /\ pc = "g_done"
    /\ Len(CallItems) = 2
    /\ Cardinality(At(<<<<"M","O","A">>, <<"1","2","4">>>>)) = 1
    /\ \E j \in 1..2 : /\ Get(CallItems[j], "tax_amount", 0) > 0
                       /\ Get(CallItems[j], "tax_rate", <<>>) \in {<<>>, <<"0">>}

(***************************************************************************)
(* The parse state of parse_edi after the first k segments of a stream.    *)
(***************************************************************************)
ParsedSegments == Split(edi_file, {"'"})

StateAfter(k) == ParseLoop(ParseStart, SubSeq(ParsedSegments, 1, k), 1)

HandledTags == {<<"U","N","H">>, <<"B","G","M">>, <<"D","T","M">>, <<"L","I","N">>, <<"I","M","D">>, <<"Q","T","Y">>, <<"M","O","A">>}

\* a segment with a tag parse_edi has no branch for, or an MOA segment with
\* a qualifier other than 203 and 9
Unhandled(segment) ==
    LET elements == Split(segment, {"+", ":"})
    IN  \/ El(elements, 0) \notin HandledTags
        \/ /\ El(elements, 0) = <<"M","O","A">>
           /\ Len(elements) > 1
           /\ El(elements, 1) \notin {<<"2","0","3">>, <<"9">>}

(***************************************************************************)
(* C24: a segment whose tag is not one of UNH, BGM, DTM, LIN, IMD, QTY,    *)
(* MOA, and an MOA segment whose qualifier is neither 203 nor 9, leaves    *)
(* the result mapping and the parse state as they are and raises nothing,  *)
(* wherever it is in the stream: the result of the parse is the result for *)
(* the stream without these segments.                                      *)
(***************************************************************************)
C24_UnhandledSegmentsAreNoOps ==
    pc = "parsed" =>
        LET segs == FileSegments(edi_file)
            D == {i \in 1..Len(segs) : Unhandled(ParsedSegments[i])}
        IN  /\ \A k \in 1..Len(ParsedSegments) :
                  (Unhandled(ParsedSegments[k]) /\ StateAfter(k - 1).err = "none")
                      => StateAfter(k) = StateAfter(k - 1)
            /\ parsed = parse_edi(Without(segs, D, 1))

\* a parsed stream with an RFF and an MOA+8 segment after the LIN of a message
C24_Witness ==
    /\ pc = "parsed"
    /\ parsed.err = "none"
    /\ Len(ParsedSegments) = MaxSegs + 1
    /\ Tag(ParsedSegments[1] \o <<"'">>) = <<"U","N","H">>
    /\ Tag(ParsedSegments[2] \o <<"'">>) = <<"L","I","N">>
    /\ {ParsedSegments[3], ParsedSegments[4]} = {<<"M","O","A","+","8",":","1",".","0","0">>, <<"R","F","F","+","A","P","I",":","7","0","1","5","-","1","0">>}
    /\ Len(Lookup(parsed.data, <<"A","1">>).lines) = 1

(***************************************************************************)
(* C25: a LIN segment with a line number and no item identifier (LIN+1+')  *)
(* in a message raises nothing: it makes the entry line_1 of the message   *)
(* with item_number None or empty, and the IMD, QTY and MOA+203 segments   *)
(* that follow it are recorded on that line.                               *)
(***************************************************************************)
\* the entry of the current line in the parse state st
CurrentLine(st) ==
    Lookup(Lookup(st.data, st.current_message_ref).lines,
           LineKey(st.current_line_number))

\* position k is a LIN+1+ segment in a message, and j is a later position
\* with no UNH or LIN from k + 1 to j
FollowsBareLIN(k, j) ==
    /\ ParsedSegments[k] = <<"L","I","N","+","1","+">>
    /\ StateAfter(k - 1).err = "none"
    /\ HasKey(StateAfter(k - 1).data, StateAfter(k - 1).current_message_ref)
    /\ k <= j
    /\ \A q \in (k + 1)..j :
          Tag(ParsedSegments[q] \o <<"'">>) \notin {<<"U","N","H">>, <<"L","I","N">>}

C25_LINWithoutItemNumber ==
    pc = "parsed" =>
        \A k \in 1..Len(ParsedSegments) : \A j \in k..Len(ParsedSegments) :
            FollowsBareLIN(k, j) =>
                LET before == StateAfter(j - 1)
                    after == StateAfter(j)
                    seg == ParsedSegments[j]
                IN  /\ after.err = "none"
                    /\ after.current_line_number = <<"1">>
                    /\ CurrentLine(after).item_number \in {None, <<>>}
                    /\ j = k => CurrentLine(after)
                                    = [item_number |-> CurrentLine(after).item_number,
                                       description |-> <<>>,
                                       quantity |-> None, amount |-> None]
                    /\ seg = <<"I","M","D","+","L","+","0","5","0","+",":",":",":","A","B"," ","C">> =>
                           CurrentLine(after).description
                               = Append(CurrentLine(before).description, <<"A","B"," ","C">>)
                    /\ seg = <<"Q","T","Y","+","4","7",":","2">> => CurrentLine(after).quantity = <<"2">>
                    /\ seg = <<"M","O","A","+","2","0","3",":","1","9",".","9","8">> => CurrentLine(after).amount = <<"1","9",".","9","8">>
                    /\ j = Len(ParsedSegments) =>
                           /\ parsed.err = "none"
                           /\ Lookup(Lookup(parsed.data, after.current_message_ref).lines,
                                     <<"l","i","n","e","_","1">>)
                                  = [CurrentLine(after) EXCEPT
                                        !.description = Join(@, <<" ">>)]

\* a parsed stream UNH, LIN+1+, QTY, MOA+203 whose line has no item number,
\* quantity 2 and amount 19.98
C25_Witness ==
    /\ pc = "parsed"
    /\ parsed.err = "none"
    /\ Len(ParsedSegments) = MaxSegs + 1
    /\ ParsedSegments[2] = <<"L","I","N","+","1","+">>
    /\ HasKey(parsed.data, <<"A","1">>)
    /\ HasKey(Lookup(parsed.data, <<"A","1">>).lines, <<"l","i","n","e","_","1">>)
    /\ Lookup(Lookup(parsed.data, <<"A","1">>).lines, <<"l","i","n","e","_","1">>)
           = [item_number |-> None, description |-> <<>>,
              quantity |-> <<"2">>, amount |-> <<"1","9",".","9","8">>]

(***************************************************************************)
(* parse_amazon_csv.  A row of csv.DictReader is a function from the       *)
(* column names of the file to the texts of the row.                       *)
(***************************************************************************)
\* str.lower() on the letters the inputs use
str_lower(s) ==
    [i \in 1..Len(s) |->
        CASE s[i] = "A" -> "a" [] s[i] = "B" -> "b" [] s[i] = "C" -> "c"
          [] s[i] = "Y" -> "y" [] OTHER -> s[i]]

\* sub in s
Contains(s, sub) ==
    \E i \in 0..(Len(s) - Len(sub)) : SubSeq(s, i + 1, i + Len(sub)) = sub

\* s.split(sep) for a separator of one or more characters
RECURSIVE SplitStr(_, _)
SplitStr(s, sep) ==
    IF ~Contains(s, sep) THEN <<s>>
    ELSE LET i == CHOOSE x \in 0..(Len(s) - Len(sep)) :
                      /\ SubSeq(s, x + 1, x + Len(sep)) = sep
                      /\ \A y \in 0..(x - 1) : SubSeq(s, y + 1, y + Len(sep)) # sep
         IN  <<SubSeq(s, 1, i)>> \o SplitStr(Drop(s, i + Len(sep)), sep)

\* s.replace(old, new)
Replace(s, old, new) == Join(SplitStr(s, old), new)

\* s.isupper(): a cased character is there and none is lower case
isupper(s) ==
    /\ \E i \in 1..Len(s) : s[i] \in {"A", "B", "C", "Y"}
    /\ \A i \in 1..Len(s) : s[i] \notin {"a", "b", "c", "y"}

extract_author_from_title(t) ==
    LET by == SplitStr(t, <<" ","b","y"," ">>)
        dash == SplitStr(t, <<" ","-"," ">>)
    IN  IF Contains(str_lower(t), <<" ","b","y"," ">>) /\ Len(by) > 1
        THEN Strip(by[Len(by)])
        ELSE IF Contains(t, <<" ","-"," ">>) /\ Len(dash) > 1 /\ isupper(dash[1])
        THEN Strip(dash[1])
        ELSE <<>>

clean_title(t, author) ==
    IF author # <<>> /\ Contains(t, author)
    THEN Strip(Replace(Replace(t, <<" ","b","y"," ">> \o author, <<>>),
                       author \o <<" ","-"," ">>, <<>>))
    ELSE t

IsDigits(s) == s # <<>> /\ \A i \in 1..Len(s) : s[i] \in {DigitChars[d] : d \in 1..10}

Pad2(n) == IF n < 10 THEN <<"0">> \o NatStr(n) ELSE NatStr(n)

DaysIn(month, year) ==
    CASE month \in {4, 6, 9, 11} -> 30
      [] month = 2 -> IF (year % 4 = 0 /\ year % 100 # 0) \/ year % 400 = 0
                      THEN 29 ELSE 28
      [] OTHER -> 31

\* datetime.strptime(date_str, fmt).strftime("%Y%m%d") for the formats of
\* parse_date: sep is the separator of fmt and year_first says where %Y is;
\* ok is FALSE for a ValueError
strptime(date_str, sep, year_first) ==
    LET p == Split(date_str, {sep})
        y == IF year_first THEN p[1] ELSE p[3]
        m == IF year_first THEN p[2] ELSE p[1]
        d == IF year_first THEN p[3] ELSE p[2]
        good == /\ Len(p) = 3
                /\ IsDigits(y) /\ Len(y) = 4 /\ NatVal(y) >= 1
                /\ IsDigits(m) /\ Len(m) <= 2 /\ NatVal(m) \in 1..12
                /\ IsDigits(d) /\ Len(d) <= 2
                /\ NatVal(d) \in 1..DaysIn(NatVal(m), NatVal(y))
    IN  IF good THEN [ok |-> TRUE, v |-> y \o Pad2(NatVal(m)) \o Pad2(NatVal(d))]
        ELSE [ok |-> FALSE, v |-> <<>>]

\* formats = ['%m/%d/%Y', '%Y-%m-%d', '%m-%d-%Y', '%Y/%m/%d']; the current
\* date when the text is empty or none of them fits
parse_date(date_str, today) ==
    IF date_str = <<>> THEN today
    ELSE IF strptime(date_str, "/", FALSE).ok THEN strptime(date_str, "/", FALSE).v
    ELSE IF strptime(date_str, "-", TRUE).ok THEN strptime(date_str, "-", TRUE).v
    ELSE IF strptime(date_str, "-", FALSE).ok THEN strptime(date_str, "-", FALSE).v
    ELSE IF strptime(date_str, "/", TRUE).ok THEN strptime(date_str, "/", TRUE).v
    ELSE today

\* safe_float(value), in hundredths, for the texts the inputs use: an
\* optional sign, digits and at most two decimals; default 0.0 for None, '',
\* 'nan' and for a text float() does not take
safe_float(value) ==
    LET t == Strip(value)
        signed == t # <<>> /\ t[1] \in {"-", "+"}
        body == IF signed THEN Tail(t) ELSE t
        p == Split(body, {"."})
        frac == IF Len(p) = 2 THEN p[2] ELSE <<>>
        good == /\ Len(p) \in {1, 2}
                /\ IsDigits(p[1])
                /\ frac = <<>> \/ (IsDigits(frac) /\ Len(frac) <= 2)
        cents == NatVal(p[1]) * 100
                 + (IF Len(frac) = 2 THEN NatVal(frac)
                    ELSE IF Len(frac) = 1 THEN NatVal(frac) * 10 ELSE 0)
    IN  IF value = None \/ value = <<>> \/ value = <<"n","a","n">> \/ ~good THEN 0
        ELSE IF signed /\ t[1] = "-" THEN 0 - cents ELSE cents

\* row.get(key, default) or default
GetOr(row, key, default) ==
    IF Get(row, key, default) = <<>> THEN default ELSE Get(row, key, default)

\* the line_item dict of a row
RowLineItem(row) ==
    LET t == Get(row, "Title", <<>>)
        author == extract_author_from_title(t)
    IN  [asin |-> Get(row, "ASIN", <<>>),
         title |-> clean_title(t, author),
         author |-> author,
         quantity |-> StrV(GetOr(row, "Shipment Quantity", <<"1">>)),
         unit_price |-> safe_float(Get(row, "Unit price excl. tax", None)),
         list_price |-> safe_float(Get(row, "Unit price excl. tax", None)),
         shipping |-> safe_float(Get(row, "Shipping and handling excl. tax", None)),
         discounts |-> safe_float(Get(row, "Promotions and discounts excl. tax", None)),
         tax_rate |-> Replace(Get(row, "Tax rate", <<>>), <<"%">>, <<>>),
         tax_amount |-> safe_float(Get(row, "Total tax amount", None)),
         pol |-> Get(row, "POL", <<>>),
         sli_ref |-> GetOr(row, "PO line item ID", <<"0">>)]

\* invoices[order_id] = {...} for an Order ID seen for the first time
RowInvoice(row, today) ==
    [invoice_number |-> Get(row, "Order ID", <<>>),
     invoice_date |-> parse_date(Get(row, "Order date", <<>>), today),
     due_date |-> parse_date(Get(row, "Invoice due date", <<>>), today),
     api_ref |-> Get(row, "Family", <<"7","0","1","5","-","1","0">>),
     line_items |-> <<>>]

\* a faulty AddRow: every row starts an invoice of its own
AddRow_new(invs, row, today) ==
    Append(invs, [RowInvoice(row, today) EXCEPT !.line_items = <<RowLineItem(row)>>])

\* the body of "for row in reader"; invs is the dict of invoices in
\* insertion order, keyed by invoice_number
AddRow(invs, row, today) ==
    LET order_id == Get(row, "Order ID", <<>>)
        known == \E i \in 1..Len(invs) : invs[i].invoice_number = order_id
        all == IF known THEN invs ELSE Append(invs, RowInvoice(row, today))
    IN  [i \in 1..Len(all) |->
            IF all[i].invoice_number = order_id
            THEN [all[i] EXCEPT !.line_items = Append(@, RowLineItem(row))]
            ELSE all[i]]

RECURSIVE ReadRows(_, _, _)
ReadRows(invs, rows, today) ==
    IF rows = <<>> THEN invs
    ELSE ReadRows(AddRow(invs, Head(rows), today), Tail(rows), today)

\* list(invoices.values())
parse_amazon_csv(rows, today) == ReadRows(<<>>, rows, today)

(***************************************************************************)
(* CSV files: up to MaxRows rows of an Amazon Business export without the  *)
(* columns Family, POL and PO line item ID.                                *)
(***************************************************************************)
CsvRow(order, date, due, id, ttl, qty, price, ship, promo, rate, tax) ==
    ("Order ID" :> order) @@ ("Order date" :> date)
    @@ ("Invoice due date" :> due) @@ ("ASIN" :> id) @@ ("Title" :> ttl)
    @@ ("Shipment Quantity" :> qty) @@ ("Unit price excl. tax" :> price)
    @@ ("Shipping and handling excl. tax" :> ship)
    @@ ("Promotions and discounts excl. tax" :> promo)
    @@ ("Tax rate" :> rate) @@ ("Total tax amount" :> tax)

CsvRows ==
    {CsvRow(<<"A","1">>, <<"0","1","/","1","5","/","2","0","2","5">>, <<"2","0","2","5","-","0","2","-","1","4">>, <<"X","1">>, <<"a","b"," ","c">>, <<"1">>,
            <<"9",".","9","9">>, <<>>, <<>>, <<>>, <<>>),
     CsvRow(<<"B","2">>, <<"2","0","2","5","-","0","1","-","1","5">>, <<>>, <<"Y","2">>, <<"b"," ","b","y"," ","c","a","b">>, <<"2">>,
            <<"9",".","9","9">>, <<"1","2",".","5","0">>, <<"-","1",".","0","0">>, <<"8",".","5","%">>, <<"0",".","8","5">>),
     CsvRow(<<"A","1">>, <<"2","/","3","0","/","2","0","2","5">>, <<"0","2","-","1","4","-","2","0","2","5">>, <<"Z","3">>, <<"C","A","B"," ","-"," ","b">>, <<>>,
            <<"n","a","n">>, <<"5">>, <<>>, <<"0","%">>, <<>>),
     CsvRow(<<>>, <<"2","0","2","5","/","0","1","/","1","5">>, <<"0","1","/","1","5","/","2","0","2","5">>, <<"W","4">>, <<"b">>, <<"1">>,
            <<"x">>, <<>>, <<>>, <<>>, <<>>)}

CsvFiles == UNION {[1..n -> CsvRows] : n \in 0..MaxRows}

(***************************************************************************)
(* convert_amazon_csv_to_edifact from the CSV file on.                     *)
(***************************************************************************)
InitCsv ==
    /\ variant = "csv"
    /\ csv_rows \in CsvFiles
    /\ set_call = None
    /\ invoices = <<>>
    /\ interchange_ref \in {None, <<"R","E","F","7">>}
    /\ pc = "c_start"
    /\ idx = 0
    /\ edi_file = Missing
    /\ parsed = None
    /\ title = <<>>
    /\ chunks = <<>>
    /\ message = <<>>

\* invoices = parse_amazon_csv(csv_file_path)
ReadCsv ==
    /\ pc = "c_start"
    /\ \E now \in Clock : invoices' = parse_amazon_csv(csv_rows, now.ymd)
    /\ pc' = "start"
    /\ UNCHANGED <<variant, idx, edi_file, interchange_ref, parsed, title, chunks,
                   message, csv_rows, set_call>>

NextCsv == ReadCsv \/ Next

SpecCsv == InitCsv /\ [][NextCsv]_vars

(***************************************************************************)
(* C27: parse_amazon_csv gives one invoice per distinct Order ID, in the   *)
(* order in which the Order IDs first appear, and the line items of an     *)
(* invoice are the rows with its Order ID in file order; no two messages   *)
(* of the stream written from them have the same UNH reference or the same *)
(* BGM invoice number.                                                     *)
(***************************************************************************)
OrderIds == [i \in 1..Len(csv_rows) |-> Get(csv_rows[i], "Order ID", <<>>)]

\* the positions of the rows that are the first of their Order ID
FirstRows ==
    {i \in 1..Len(csv_rows) : \A j \in 1..(i - 1) : OrderIds[j] # OrderIds[i]}

\* the positions of the rows with the Order ID id
RowsOf(id) == {i \in 1..Len(csv_rows) : OrderIds[i] = id}

\* the k-th smallest element of the set of numbers S
Nth(S, k) == CHOOSE p \in S : Cardinality({q \in S : q < p}) = k - 1

C27_OneInvoicePerOrderId ==
    /\ pc # "c_start" =>
          /\ Len(invoices) = Cardinality(FirstRows)
          /\ \A k \in 1..Len(invoices) :
                LET id == OrderIds[Nth(FirstRows, k)]
                    items == invoices[k].line_items
                IN  /\ invoices[k].invoice_number = id
                    /\ Len(items) = Cardinality(RowsOf(id))
                    /\ \A j \in 1..Len(items) :
                          items[j] = RowLineItem(csv_rows[Nth(RowsOf(id), j)])
    /\ pc \in {"loop", "done"} =>
          LET segs == WrittenSegments
              R == MessageRanges(segs)
          IN  \A r, s \in R :
                 r # s => /\ El(Elements(segs[r[1]]), 1) # El(Elements(segs[s[1]]), 1)
                          /\ Tag(segs[r[1] + 1]) = <<"B","G","M">>
                          /\ Tag(segs[s[1] + 1]) = <<"B","G","M">>
                          /\ El(Elements(segs[r[1] + 1]), 2)
                                 # El(Elements(segs[s[1] + 1]), 2)

\* a finished run over a file whose rows have the Order IDs A1, B2, A1
C27_Witness ==
    /\ pc = "done"
    /\ Len(csv_rows) = 3
    /\ OrderIds = <<<<"A","1">>, <<"B","2">>, <<"A","1">>>>
    /\ Len(invoices) = 2
    /\ Len(invoices[1].line_items) = 2
    /\ invoices[1].line_items[2].asin = <<"Z","3">>
    /\ Cardinality(MessageRanges(WrittenSegments)) = 2

(***************************************************************************)
(* C29: for an invoice parse_workday_excel built from a workbook without a *)
(* total invoice amount (the record's total_amount is then the reader's    *)
(* default 0), MOA+79 of the Workday message is gross_total + total_tax,   *)
(* so that MOA+79 is not smaller than MOA+9.                               *)
(***************************************************************************)
C29_WorkdayDefaultNetTotal ==
    (variant = "workday" /\ pc \in {"loop", "done"}) =>
        \A k \in 1..(idx - 1) :
            invoices[k].total_amount = 0 =>
                LET m == NthMessage(WrittenSegments, k)
                    items == invoices[k].line_items
                    I == 1..Len(items)
                    gross == SumOver([j \in I |->
                                 Get(items[j], "unit_price", 0)
                                 * PyInt(EmittedQuantity(items[j])).v], I)
                             + SumOver([j \in I |-> Get(items[j], "shipping", 0)], I)
                IN  /\ \A i \in Tagged(m, <<"M","O","A">>, <<"9">>) :
                          IsTwoDecimalsOf(El(Elements(m[i]), 2), gross)
                    /\ \A i \in Tagged(m, <<"M","O","A">>, <<"7","9">>) :
                          IsTwoDecimalsOf(El(Elements(m[i]), 2),
                                          gross + invoices[k].total_tax)

(***************************************************************************)
(* AlmaSetClient (create_item_set.py) and AlmaTitleSetClient               *)
(* (create_title_set.py): create_and_populate_set.  A request to the Alma  *)
(* server ends with an HTTP status or with a connection error.             *)
(***************************************************************************)
HttpOutcomes == {"200", "201", "404", "429", "500", "ConnectionError"}

\* response.raise_for_status() raises nothing
NoHTTPError(outcome) == outcome \in {"200", "201"}

\* if len(item_ids) > 1000: return False
MaxMembers == 1000

MemberCounts == {0, 1, MaxMembers, MaxMembers + 1}

SetIds == {<<"S">> \o NatStr(i) : i \in 1..MaxSetIds}

\* create_and_populate_set ends with "return set_id", whatever success is
ReturnValue(set_id, success) == set_id

InitSet ==
    /\ set_call \in {[client |-> c, item_ids |-> n, set_info |-> None,
                      current_set |-> None, success |-> None, returned |-> None,
                      status |-> "none", server_set |-> None, server_members |-> 0] :
                        c \in {"item", "title"}, n \in MemberCounts}
    /\ pc = "s_start"
    /\ variant = "csv" /\ invoices = <<>> /\ idx = 0 /\ interchange_ref = None
    /\ edi_file = Missing /\ parsed = None
    /\ title = <<>> /\ chunks = <<>> /\ message = <<>> /\ csv_rows = <<>>

\* set_info = self.create_set(...); if not set_info: return None;
\* with no item_ids the function returns the set ID at once
CreateSet ==
    /\ pc = "s_start"
    /\ \E outcome \in HttpOutcomes, id \in SetIds :
          IF NoHTTPError(outcome)
          THEN /\ set_call' = [set_call EXCEPT
                     !.status = outcome, !.set_info = id, !.server_set = id,
                     !.returned = IF set_call.item_ids > 0 THEN None
                                  ELSE ReturnValue(id, TRUE)]
               /\ pc' = IF set_call.item_ids > 0 THEN "s_add" ELSE "s_returned"
          ELSE /\ set_call' = [set_call EXCEPT !.status = outcome]
               /\ pc' = "s_returned"
    /\ UNCHANGED <<variant, invoices, idx, edi_file, interchange_ref, parsed,
                   title, chunks, message, csv_rows>>

\* AlmaSetClient.add_items_to_set up to its POST: the size check and
\* current_set = self.get_set_info(set_id); a False ends
\* create_and_populate_set with its return statement
GetSetInfo ==
    /\ pc = "s_add"
    /\ set_call.client = "item"
    /\ IF set_call.item_ids > MaxMembers
       THEN /\ set_call' = [set_call EXCEPT
                  !.success = FALSE,
                  !.returned = ReturnValue(set_call.set_info, FALSE)]
            /\ pc' = "s_returned"
       ELSE \E outcome \in HttpOutcomes :
               IF NoHTTPError(outcome)
               THEN /\ set_call' = [set_call EXCEPT
                          !.status = outcome, !.current_set = set_call.set_info]
                    /\ pc' = "s_post"
               ELSE /\ set_call' = [set_call EXCEPT
                          !.status = outcome, !.success = FALSE,
                          !.returned = ReturnValue(set_call.set_info, FALSE)]
                    /\ pc' = "s_returned"
    /\ UNCHANGED <<variant, invoices, idx, edi_file, interchange_ref, parsed,
                   title, chunks, message, csv_rows>>

\* the POST of add_items_to_set, or AlmaTitleSetClient.add_titles_to_set
\* (size check and POST): True for status 200 only; then the return
\* statement of create_and_populate_set
PostMembers ==
    /\ \/ pc = "s_post"
       \/ pc = "s_add" /\ set_call.client = "title"
    /\ IF set_call.item_ids > MaxMembers
       THEN set_call' = [set_call EXCEPT
                !.success = FALSE,
                !.returned = ReturnValue(set_call.set_info, FALSE)]
       ELSE \E outcome \in HttpOutcomes :
               set_call' = [set_call EXCEPT
                   !.status = outcome,
                   !.success = (outcome = "200"),
                   !.server_members = IF NoHTTPError(outcome)
                                      THEN set_call.item_ids ELSE 0,
                   !.returned = ReturnValue(set_call.set_info, outcome = "200")]
    /\ pc' = "s_returned"
    /\ UNCHANGED <<variant, invoices, idx, edi_file, interchange_ref, parsed,
                   title, chunks, message, csv_rows>>

NextSet == CreateSet \/ GetSetInfo \/ PostMembers

SpecSet == InitSet /\ [][NextSet]_vars

(***************************************************************************)
(* C30: create_and_populate_set, in both clients, returns the set ID only  *)
(* when the set was created and the members were added (or there were no   *)
(* members to add), and None otherwise: None when the set was created but  *)
(* adding the members failed or was rejected for more than 1000 members.   *)
(***************************************************************************)
C30_SetIdOnlyOnSuccess ==
    pc = "s_returned" =>
        set_call.returned =
            IF /\ set_call.set_info # None
               /\ set_call.item_ids = 0 \/ set_call.success = TRUE
            THEN set_call.set_info
            ELSE None

(***************************************************************************)
(* Title-splitting runs: generate_line_item_segments uppercases the title  *)
(* and hands it to split_title_for_imd.                                    *)
(***************************************************************************)
InitTitle ==
    /\ title \in Titles
    /\ chunks = <<>>
    /\ pc = "t_start"
    /\ variant = "csv" /\ invoices = <<>> /\ idx = 0
    /\ edi_file = Missing /\ interchange_ref = None /\ parsed = None
    /\ message = <<>> /\ csv_rows = <<>> /\ set_call = None

SplitTitle ==
    /\ pc = "t_start"
    /\ chunks' = split_title_for_imd(str_upper(title))
    /\ pc' = "t_done"
    /\ UNCHANGED <<variant, invoices, idx, edi_file, interchange_ref, parsed, title,
                   message, csv_rows, set_call>>

NextTitle == SplitTitle

SpecTitle == InitTitle /\ [][NextTitle]_vars

(***************************************************************************)
(* C4: every chunk returned by split_title_for_imd has at most 35          *)
(* characters, also for titles that hold a word longer than 35 characters. *)
(***************************************************************************)
C4_ChunksAtMost35 ==
    pc = "t_done" => \A i \in 1..Len(chunks) : Len(chunks[i]) <= max_length

(***************************************************************************)
(* Tiles(cs, t): the chunks cs, in order, make up the text t when one      *)
(* space is put back at each chunk boundary that falls between two words   *)
(* (the text goes on with a space there) and nothing at a boundary inside  *)
(* a word.                                                                 *)
(***************************************************************************)
RECURSIVE Tiles(_, _)
Tiles(cs, t) ==
    IF cs = <<>> THEN t = <<>>
    ELSE LET c == Head(cs)
             r == Drop(t, Len(c))
         IN  /\ Len(c) <= Len(t)
             /\ SubSeq(t, 1, Len(c)) = c
             /\ Tiles(Tail(cs),
                      IF Tail(cs) # <<>> /\ r # <<>> /\ Head(r) = " "
                      THEN Tail(r) ELSE r)

\* " ".join(t.split()): runs of whitespace collapsed, outer whitespace removed
Normalized(t) == Join(Words(t), <<" ">>)

(***************************************************************************)
(* C5 as stated: the chunks of every title, rejoined, give back exactly    *)
(* the uppercased original title.                                          *)
(***************************************************************************)
C5_RejoinIsOriginal ==
    pc = "t_done" => Tiles(chunks, str_upper(title))

(***************************************************************************)
(* C5 amended: the chunks, rejoined, give back the uppercased title itself *)
(* when it has at most 35 characters, and otherwise the uppercased title   *)
(* with every run of whitespace collapsed to one space and the outer       *)
(* whitespace removed; no word is lost, duplicated or reordered.           *)
(***************************************************************************)
C5_RejoinIsNormalizedTitle ==
    pc = "t_done" =>
        LET u == str_upper(title)
        IN  Tiles(chunks, IF Len(u) <= max_length THEN u ELSE Normalized(u))

\* a long title with irregular whitespace, split at a word boundary and
\* inside a word
C5_Witness ==
    /\ pc = "t_done"
    /\ Len(title) > max_length
    /\ Normalized(title) # title
    /\ Len(chunks) >= 3
    /\ \E i \in 1..(Len(chunks) - 1) :
           Len(chunks[i]) = max_length /\ Len(Words(chunks[i])) = 1
    /\ \E w \in 1..Len(Words(title)) : Len(Words(title)[w]) > max_length

====
